---------------------------- MODULE Spec2Model ----------------------------
(***************************************************************************)
(* A model of the pose comparison engine of statuesque                     *)
(* (src/src/pose-utils/comparePoses.ts).                                   *)
(*                                                                         *)
(* comparePoses is a pure function of two landmark arrays and a            *)
(* configuration.  The model computes it as the code does, on binary       *)
(* floating-point numbers with a MantBits-bit mantissa (the code runs on   *)
(* IEEE-754 doubles, 53 bits).  A caller draws the inputs, calls           *)
(* comparePoses, changes one thing about the inputs (a translation, a      *)
(* scaling, the coordinates of one joint) and calls it again.              *)
(***************************************************************************)
EXTENDS Integers, Sequences, FiniteSets

(***************************************************************************)
(* Numbers.  A number is <<m, e>>, standing for m * 2^e, with m = 0 or     *)
(* 2^(MantBits-1) <= |m| < 2^MantBits.  Every operation computes the exact *)
(* result and rounds it toward zero to MantBits bits, so that, as with     *)
(* doubles, a result is exact when it is representable, multiplying by a   *)
(* power of two is exact, and x - x = 0.  There is no infinity and no NaN: *)
(* the exponent is unbounded.                                              *)
(***************************************************************************)
MantBits == 12

Mant == 2 ^ MantBits

HalfMant == 2 ^ (MantBits - 1)

Abs(i) == IF i < 0 THEN -i ELSE i

TruncDiv(a, b) ==
    IF (a >= 0) = (b > 0) THEN Abs(a) \div Abs(b) ELSE -(Abs(a) \div Abs(b))

\* m * 2^e for m >= 0, with the mantissa cut to MantBits bits.
RECURSIVE Normal(_, _)
Normal(m, e) ==
    IF m = 0 THEN <<0, 0>>
    ELSE IF m >= Mant THEN Normal(m \div 2, e + 1)
    ELSE IF m < HalfMant THEN Normal(m * 2, e - 1)
    ELSE <<m, e>>

Signed(m, a) == IF m < 0 THEN <<-a[1], a[2]>> ELSE a

Round(m, e) == Signed(m, Normal(Abs(m), e))

Num(n) == Round(n, 0)

Zero == <<0, 0>>

One == Num(1)

Neg(a) == <<-a[1], a[2]>>

Add(a, b) ==
    IF a[1] = 0 THEN b
    ELSE IF b[1] = 0 THEN a
    ELSE LET hi == IF a[2] >= b[2] THEN a ELSE b
             lo == IF a[2] >= b[2] THEN b ELSE a
             shift == hi[2] - lo[2]
         IN  IF shift > MantBits + 1 THEN hi
             ELSE Round(hi[1] * (2 ^ shift) + lo[1], lo[2])

Sub(a, b) == Add(a, Neg(b))

Mul(a, b) == Round(a[1] * b[1], a[2] + b[2])

Div(a, b) == Round(TruncDiv(a[1] * (2 * Mant), b[1]), a[2] - b[2] - MantBits - 1)

Ratio(p, q) == Div(Num(p), Num(q))

Lt(a, b) == Sub(a, b)[1] < 0

Le(a, b) == Sub(a, b)[1] <= 0

Gt(a, b) == Lt(b, a)

Ge(a, b) == Le(b, a)

Max(a, b) == IF Lt(a, b) THEN b ELSE a

Min(a, b) == IF Lt(b, a) THEN b ELSE a

RECURSIVE Newton(_, _)
Newton(n, x) ==
    LET y == (x + n \div x) \div 2
    IN  IF y >= x THEN x ELSE Newton(n, y)

ISqrt(n) == IF n = 0 THEN 0 ELSE Newton(n, 2 * Mant)

Sqrt(a) ==
    IF a[1] <= 0 THEN Zero
    ELSE LET s == IF (a[2] - MantBits) % 2 = 0 THEN MantBits ELSE MantBits + 1
         IN  Round(ISqrt(a[1] * (2 ^ s)), (a[2] - s) \div 2)

RECURSIVE SumSeq(_)
SumSeq(s) == IF s = <<>> THEN Zero ELSE Add(SumSeq(SubSeq(s, 1, Len(s) - 1)), s[Len(s)])

Mean(s) == Div(SumSeq(s), Num(Len(s)))


(***************************************************************************)
(* Math.floor of a number, as an integer.                                  *)
(***************************************************************************)
Floor(a) ==
    IF a[2] >= 0 THEN a[1] * (2 ^ a[2])
    ELSE IF -a[2] > MantBits THEN (IF a[1] < 0 THEN -1 ELSE 0)
    ELSE a[1] \div (2 ^ (-a[2]))

(***************************************************************************)
(* Math.acos(c) * (180 / Math.PI) for c in [-1, 1]: the arc cosine in      *)
(* degrees, tabulated at the multiples of 1/8 (in hundredths of a degree)  *)
(* and interpolated linearly between them.  It is exact at -1, -1/2, 0,    *)
(* 1/2 and 1, decreasing, and within [0, 180].                             *)
(***************************************************************************)
AcosTable == <<0, 2896, 4141, 5132, 6000, 6798, 7552, 8282, 9000>>

AcosNode(j) == IF j >= 0 THEN AcosTable[9 - j] ELSE 18000 - AcosTable[9 + j]

Interpolate(lo, hi, frac) == Div(Add(lo, Mul(Sub(hi, lo), frac)), Num(100))

AcosBetween(t, j) == Interpolate(Num(AcosNode(j)), Num(AcosNode(j + 1)), Sub(t, Num(j)))

AcosScaled(t) == AcosBetween(t, IF Floor(t) >= 8 THEN 7 ELSE Floor(t))

AcosDegrees(c) == AcosScaled(Mul(Num(8), c))

(***************************************************************************)
(* Landmarks.  A landmark is a record [x, y, z, visibility]; z and         *)
(* visibility are optional and Undefined when absent.  A pose is the       *)
(* sequence of its landmarks: the landmark of index idx (from 0, as in     *)
(* PoseLandmarkIndex) is landmarks[idx + 1].                               *)
(***************************************************************************)
Undefined == <<>>

\* An array whose elements are computed once, when it is made.
Array(f) == SubSeq(f, 1, Len(f))

NOSE == 0
LEFT_SHOULDER == 11
RIGHT_SHOULDER == 12
LEFT_ELBOW == 13
RIGHT_ELBOW == 14
LEFT_WRIST == 15
RIGHT_WRIST == 16
LEFT_HIP == 23
RIGHT_HIP == 24
LEFT_KNEE == 25
RIGHT_KNEE == 26
LEFT_ANKLE == 27
RIGHT_ANKLE == 28

\* landmarks[idx] is an object (not undefined): idx is within the array.
Has(landmarks, idx) == idx < Len(landmarks)

At(landmarks, idx) == landmarks[idx + 1]

\* v ?? d
OrElse(v, d) == IF v = Undefined THEN d ELSE v

DEFAULT_CONFIG ==
    [visibilityThreshold |-> Ratio(1, 2),
     distanceThreshold |-> Ratio(1, 2),
     similarityThreshold |-> Ratio(1, 2),
     useAngles |-> FALSE,
     angleWeight |-> Ratio(3, 10),
     perLimbNormalization |-> FALSE,
     angleOnly |-> FALSE]

\* The looser visibility bound of the origin and scale anchors (0.3).
AnchorVisibility == Ratio(3, 10)

\* The floor of a scale and of a limb length (0.01).
MinLength == Ratio(1, 100)

\* Math.sqrt(dx * dx + dy * dy + dz * dz)
Hypot(dx, dy, dz) == Sqrt(Add(Add(Mul(dx, dx), Mul(dy, dy)), Mul(dz, dz)))

distance(a, b) ==
    Hypot(Sub(a.x, b.x), Sub(a.y, b.y), Sub(OrElse(a.z, Zero), OrElse(b.z, Zero)))

midpoint(a, b) ==
    [x |-> Div(Add(a.x, b.x), Num(2)),
     y |-> Div(Add(a.y, b.y), Num(2)),
     z |-> IF a.z /= Undefined /\ b.z /= Undefined
           THEN Div(Add(a.z, b.z), Num(2)) ELSE Undefined,
     visibility |-> Undefined]

\* The limb pairs (start_idx, end_idx) of normalizeLandmarksByLimbs, in order.
limbs ==
    << <<LEFT_SHOULDER, LEFT_ELBOW>>, <<LEFT_ELBOW, LEFT_WRIST>>,
       <<RIGHT_SHOULDER, RIGHT_ELBOW>>, <<RIGHT_ELBOW, RIGHT_WRIST>>,
       <<LEFT_HIP, LEFT_KNEE>>, <<LEFT_KNEE, LEFT_ANKLE>>,
       <<RIGHT_HIP, RIGHT_KNEE>>, <<RIGHT_KNEE, RIGHT_ANKLE>>,
       <<LEFT_SHOULDER, LEFT_HIP>>, <<RIGHT_SHOULDER, RIGHT_HIP>> >>

\* limbLengths.get(idx) || 1: the map is keyed by the limb's start index, and
\* a later limb with the same start overwrites an earlier one.
LimbLengthOf(landmarks, idx) ==
    LET set == {i \in 1..Len(limbs) :
                  /\ limbs[i][1] = idx
                  /\ Has(landmarks, limbs[i][1])
                  /\ Has(landmarks, limbs[i][2])}
    IN  IF set = {} THEN One
        ELSE LET last == CHOOSE i \in set : \A k \in set : k <= i
             IN  Max(distance(At(landmarks, limbs[last][1]),
                              At(landmarks, limbs[last][2])), MinLength)

\* The landmark divided by the length of its limb.
DivideByLimb(lm, limbLength) ==
    [x |-> Div(lm.x, limbLength),
     y |-> Div(lm.y, limbLength),
     z |-> IF lm.z /= Undefined THEN Div(lm.z, limbLength) ELSE Undefined,
     visibility |-> lm.visibility]

normalizeLandmarksByLimbs(landmarks) ==
    Array([i \in 1..Len(landmarks) |->
             DivideByLimb(landmarks[i], LimbLengthOf(landmarks, i - 1))])

\* An angle whose cosine is clamped from below only.
HalfClamped(dot, mag1, mag2) ==
    IF mag1 = Zero \/ mag2 = Zero THEN Zero
    ELSE AcosDegrees(Max(Neg(One), Div(dot, Mul(mag1, mag2))))

\* Math.acos(clamp(dot / (mag1 * mag2))) in degrees; 0 for a vector of length 0.
AngleOf(dot, mag1, mag2) ==
    IF mag1 = Zero \/ mag2 = Zero THEN Zero
    ELSE AcosDegrees(Max(Neg(One), Min(One, Div(dot, Mul(mag1, mag2)))))

AngleBetween(v1x, v1y, v2x, v2y) ==
    AngleOf(Add(Mul(v1x, v2x), Mul(v1y, v2y)),
            Sqrt(Add(Mul(v1x, v1x), Mul(v1y, v1y))),
            Sqrt(Add(Mul(v2x, v2x), Mul(v2y, v2y))))

computeAngle(a, b, c) ==
    AngleBetween(Sub(a.x, b.x), Sub(a.y, b.y), Sub(c.x, b.x), Sub(c.y, b.y))

\* (lm.visibility ?? 1) >= config.visibilityThreshold
PassesFilter(lm, config) == Ge(OrElse(lm.visibility, One), config.visibilityThreshold)

isVisible(landmarks, idx, config) ==
    idx < Len(landmarks) /\ PassesFilter(At(landmarks, idx), config)

\* A detection in which an arm needs no shoulder.
ArmsWithoutShoulder(landmarks, config) ==
    (IF isVisible(landmarks, LEFT_SHOULDER, config) \/ isVisible(landmarks, RIGHT_SHOULDER, config)
     THEN <<"upper">> ELSE <<>>)
    \o (IF isVisible(landmarks, LEFT_HIP, config) \/ isVisible(landmarks, RIGHT_HIP, config)
        THEN <<"lower">> ELSE <<>>)
    \o (IF isVisible(landmarks, LEFT_ELBOW, config) \/ isVisible(landmarks, LEFT_WRIST, config)
        THEN <<"left_arm">> ELSE <<>>)
    \o (IF isVisible(landmarks, RIGHT_ELBOW, config) \/ isVisible(landmarks, RIGHT_WRIST, config)
        THEN <<"right_arm">> ELSE <<>>)

detectVisibleRegions(landmarks, config) ==
    (IF isVisible(landmarks, LEFT_SHOULDER, config) \/ isVisible(landmarks, RIGHT_SHOULDER, config)
     THEN <<"upper">> ELSE <<>>)
    \o (IF isVisible(landmarks, LEFT_HIP, config) \/ isVisible(landmarks, RIGHT_HIP, config)
        THEN <<"lower">> ELSE <<>>)
    \o (IF /\ isVisible(landmarks, LEFT_SHOULDER, config)
           /\ (isVisible(landmarks, LEFT_ELBOW, config) \/ isVisible(landmarks, LEFT_WRIST, config))
        THEN <<"left_arm">> ELSE <<>>)
    \o (IF /\ isVisible(landmarks, RIGHT_SHOULDER, config)
           /\ (isVisible(landmarks, RIGHT_ELBOW, config) \/ isVisible(landmarks, RIGHT_WRIST, config))
        THEN <<"right_arm">> ELSE <<>>)

\* The indices (from 0), in increasing order, of the landmarks that pass.
filterVisibleLandmarks(landmarks, config) ==
    SelectSeq([i \in 1..Len(landmarks) |-> i - 1],
              LAMBDA idx : PassesFilter(At(landmarks, idx), config))

\* arr.includes(v)
Includes(arr, v) == \E i \in 1..Len(arr) : arr[i] = v

(***************************************************************************)
(* normalizePose.  An exception is a record with threw = TRUE; a value     *)
(* returned has threw = FALSE.                                             *)
(***************************************************************************)
Thrown(message) == [threw |-> TRUE, message |-> message]

\* lm && (lm.visibility ?? 1) > 0.3
AnchorUsable(landmarks, idx) ==
    /\ Has(landmarks, idx)
    /\ Gt(OrElse(At(landmarks, idx).visibility, One), AnchorVisibility)

\* An origin that prefers the shoulders to the hips.
ShouldersFirst(landmarksToNormalize, visibleIndices) ==
    IF /\ AnchorUsable(landmarksToNormalize, LEFT_SHOULDER)
       /\ AnchorUsable(landmarksToNormalize, RIGHT_SHOULDER)
    THEN midpoint(At(landmarksToNormalize, LEFT_SHOULDER),
                  At(landmarksToNormalize, RIGHT_SHOULDER))
    ELSE midpoint(At(landmarksToNormalize, LEFT_HIP), At(landmarksToNormalize, RIGHT_HIP))

ComputeOrigin(landmarksToNormalize, visibleIndices) ==
    IF /\ AnchorUsable(landmarksToNormalize, LEFT_HIP)
       /\ AnchorUsable(landmarksToNormalize, RIGHT_HIP)
    THEN midpoint(At(landmarksToNormalize, LEFT_HIP), At(landmarksToNormalize, RIGHT_HIP))
    ELSE IF /\ AnchorUsable(landmarksToNormalize, LEFT_SHOULDER)
            /\ AnchorUsable(landmarksToNormalize, RIGHT_SHOULDER)
    THEN midpoint(At(landmarksToNormalize, LEFT_SHOULDER),
                  At(landmarksToNormalize, RIGHT_SHOULDER))
    ELSE IF AnchorUsable(landmarksToNormalize, NOSE)
    THEN At(landmarksToNormalize, NOSE)
    ELSE LET n == Len(visibleIndices)
             xs == [i \in 1..n |-> At(landmarksToNormalize, visibleIndices[i]).x]
             ys == [i \in 1..n |-> At(landmarksToNormalize, visibleIndices[i]).y]
         IN  [x |-> Div(SumSeq(xs), Num(n)),
              y |-> Div(SumSeq(ys), Num(n)),
              z |-> Undefined,
              visibility |-> Undefined]

\* Some landmark of the array passes the visibility filter.
SomeVisibleIn(landmarks, config) == Len(filterVisibleLandmarks(landmarks, config)) > 0

\* The largest of a set of numbers >= 0 and of maxDist: of the largest
\* exponent, the largest mantissa.
Largest(numbers, maxDist) ==
    LET all == (numbers \cup {maxDist}) \ {Zero}
    IN  IF all = {} THEN Zero
        ELSE LET e == CHOOSE k \in {d[2] : d \in all} : \A d \in all : d[2] <= k
                 m == CHOOSE k \in {d[1] : d \in all} :
                        /\ <<k, e>> \in all
                        /\ \A d \in all : d[2] = e => d[1] <= k
             IN  <<m, e>>

\* The largest distance between two visible landmarks, starting from maxDist:
\* the loops over i < j keep the largest distance seen.
MaxPairDistance(landmarks, visibleIndices, maxDist) ==
    Largest({distance(At(landmarks, visibleIndices[i]), At(landmarks, visibleIndices[j])) :
                <<i, j>> \in {p \in (1..Len(visibleIndices)) \X (1..Len(visibleIndices)) :
                                p[1] < p[2]}},
            maxDist)

\* A scale that is always taken from the largest distance between two
\* visible landmarks.
LargestDistanceOnly(landmarksToNormalize, visibleIndices) ==
    MaxPairDistance(landmarksToNormalize, visibleIndices, Zero)

\* The length the scale is taken from, before its floor of 0.01.
ReferenceLength(landmarksToNormalize, visibleIndices) ==
    IF /\ AnchorUsable(landmarksToNormalize, LEFT_SHOULDER)
       /\ AnchorUsable(landmarksToNormalize, RIGHT_SHOULDER)
       /\ AnchorUsable(landmarksToNormalize, LEFT_HIP)
       /\ AnchorUsable(landmarksToNormalize, RIGHT_HIP)
    THEN distance(midpoint(At(landmarksToNormalize, LEFT_SHOULDER),
                           At(landmarksToNormalize, RIGHT_SHOULDER)),
                  midpoint(At(landmarksToNormalize, LEFT_HIP),
                           At(landmarksToNormalize, RIGHT_HIP)))
    ELSE IF /\ AnchorUsable(landmarksToNormalize, LEFT_SHOULDER)
            /\ AnchorUsable(landmarksToNormalize, RIGHT_SHOULDER)
    THEN distance(At(landmarksToNormalize, LEFT_SHOULDER),
                  At(landmarksToNormalize, RIGHT_SHOULDER))
    ELSE MaxPairDistance(landmarksToNormalize, visibleIndices, Zero)

\* A normalizePose that only translates: the scale is always 1.
UnitScale(landmarksToNormalize, visibleIndices) == One

ComputeScale(landmarksToNormalize, visibleIndices) ==
    Max(ReferenceLength(landmarksToNormalize, visibleIndices), MinLength)

\* Translate by the origin, then scale; the depth is only scaled.
NormalizeLandmark(lm, origin, scale) ==
    [x |-> Div(Sub(lm.x, origin.x), scale),
     y |-> Div(Sub(lm.y, origin.y), scale),
     z |-> IF lm.z /= Undefined THEN Div(lm.z, scale) ELSE Undefined,
     visibility |-> lm.visibility]

LandmarksToNormalize(landmarks, config) ==
    IF config.perLimbNormalization THEN normalizeLandmarksByLimbs(landmarks) ELSE landmarks

\* The value normalizePose returns.
NormalizedPose(landmarksToNormalize, visibleIndices, origin, scale) ==
    [threw |-> FALSE,
     landmarks |-> Array([i \in 1..Len(landmarksToNormalize) |->
                            NormalizeLandmark(landmarksToNormalize[i], origin, scale)]),
     origin |-> origin,
     scale |-> scale,
     visibleLandmarkIndices |-> visibleIndices]

NormalizeAround(landmarksToNormalize, visibleIndices) ==
    NormalizedPose(landmarksToNormalize, visibleIndices,
                   ComputeOrigin(landmarksToNormalize, visibleIndices),
                   ComputeScale(landmarksToNormalize, visibleIndices))

NormalizeVisible(landmarks, config, visibleIndices) ==
    IF Len(visibleIndices) = 0 THEN Thrown("No visible landmarks to normalize")
    ELSE NormalizeAround(LandmarksToNormalize(landmarks, config), visibleIndices)

normalizePose(landmarks, config) ==
    NormalizeVisible(landmarks, config, filterVisibleLandmarks(landmarks, config))

(***************************************************************************)
(* The feature extractors.                                                 *)
(***************************************************************************)
CommonIndices(targetPose, currentPose) ==
    SelectSeq(targetPose.visibleLandmarkIndices,
              LAMBDA idx : Includes(currentPose.visibleLandmarkIndices, idx))

\* A computeDistanceFeatures over every joint visible in the reference.
DistancesOverTarget(targetPose, currentPose) ==
    [distances |-> [i \in 1..Len(targetPose.visibleLandmarkIndices) |->
                      distance(At(targetPose.landmarks, targetPose.visibleLandmarkIndices[i]),
                               At(targetPose.landmarks, targetPose.visibleLandmarkIndices[i]))],
     validCount |-> Len(targetPose.visibleLandmarkIndices)]

\* A computeDistanceFeatures that reads the live pose at the position in
\* commonIndices instead of at the landmark index.
DistancesByPosition(targetPose, currentPose) ==
    LET commonIndices == CommonIndices(targetPose, currentPose)
    IN  [distances |-> [i \in 1..Len(commonIndices) |->
                          distance(At(targetPose.landmarks, commonIndices[i]),
                                   At(currentPose.landmarks, i - 1))],
         validCount |-> Len(commonIndices)]

computeDistanceFeatures(targetPose, currentPose) ==
    LET commonIndices == CommonIndices(targetPose, currentPose)
    IN  [distances |-> [i \in 1..Len(commonIndices) |->
                          distance(At(targetPose.landmarks, commonIndices[i]),
                                   At(currentPose.landmarks, commonIndices[i]))],
         validCount |-> Len(commonIndices)]

jointTriples ==
    << <<LEFT_SHOULDER, LEFT_ELBOW, LEFT_WRIST>>,
       <<RIGHT_SHOULDER, RIGHT_ELBOW, RIGHT_WRIST>>,
       <<LEFT_HIP, LEFT_KNEE, LEFT_ANKLE>>,
       <<RIGHT_HIP, RIGHT_KNEE, RIGHT_ANKLE>>,
       <<LEFT_SHOULDER, LEFT_HIP, LEFT_KNEE>>,
       <<RIGHT_SHOULDER, RIGHT_HIP, RIGHT_KNEE>> >>

TripleVisible(pose, t) ==
    /\ Includes(pose.visibleLandmarkIndices, t[1])
    /\ Includes(pose.visibleLandmarkIndices, t[2])
    /\ Includes(pose.visibleLandmarkIndices, t[3])

AngleAt(pose, t) ==
    computeAngle(At(pose.landmarks, t[1]), At(pose.landmarks, t[2]), At(pose.landmarks, t[3]))

\* An angle difference that is not folded into the shorter arc.
UnfoldedDifference(targetAngle, currentAngle) ==
    LET d == Sub(targetAngle, currentAngle)
    IN  Div(IF Lt(d, Zero) THEN Neg(d) ELSE d, Num(180))

\* An angle difference folded and divided by 90.
DifferenceOver90(targetAngle, currentAngle) ==
    LET d == Sub(targetAngle, currentAngle)
        angleDiff == IF Lt(d, Zero) THEN Neg(d) ELSE d
    IN  Div(Min(angleDiff, Sub(Num(180), angleDiff)), Num(90))

\* Math.min(angleDiff, 180 - angleDiff) / 180
NormalizedAngleDifference(targetAngle, currentAngle) ==
    LET d == Sub(targetAngle, currentAngle)
        angleDiff == IF Lt(d, Zero) THEN Neg(d) ELSE d
    IN  Div(Min(angleDiff, Sub(Num(180), angleDiff)), Num(180))

RECURSIVE AnglesFrom(_, _, _)
AnglesFrom(targetPose, currentPose, k) ==
    IF k > Len(jointTriples) THEN <<>>
    ELSE (IF TripleVisible(targetPose, jointTriples[k]) /\ TripleVisible(currentPose, jointTriples[k])
          THEN <<NormalizedAngleDifference(AngleAt(targetPose, jointTriples[k]),
                                           AngleAt(currentPose, jointTriples[k]))>>
          ELSE <<>>)
         \o AnglesFrom(targetPose, currentPose, k + 1)

AngleFeatures(angles) == [angles |-> angles, validCount |-> Len(angles)]

computeAngleFeatures(targetPose, currentPose) ==
    AngleFeatures(AnglesFrom(targetPose, currentPose, 1))

(***************************************************************************)
(* comparePoses and compareAnglesOnly.  A result returned is a record with *)
(* outcome = "returned"; regionDistances is a function from region tags to *)
(* numbers, present only when hasRegionDistances holds.                    *)
(***************************************************************************)
Returned(isMatching, similarity, landmarksCompared, validLandmarks, meanDistance, comparedRegions, hasRegionDistances, regionDistances) ==
    [outcome |-> "returned",
     isMatching |-> isMatching,
     similarity |-> similarity,
     landmarksCompared |-> landmarksCompared,
     validLandmarks |-> validLandmarks,
     meanDistance |-> meanDistance,
     comparedRegions |-> comparedRegions,
     hasRegionDistances |-> hasRegionDistances,
     regionDistances |-> regionDistances]

\* The result returned when nothing can be compared, and by both catch clauses.
DegenerateResult == Returned(FALSE, Zero, 0, 0, One, <<>>, FALSE, <<>>)

\* The error thrown past comparePoses.
InvalidInput == [outcome |-> "threw", message |-> "Landmark arrays cannot be empty"]

\* { ...DEFAULT_CONFIG, ...config }
\* { ...defaults, ...config }: a new object, the options of config over those
\* of defaults.
Spread(defaults, config) ==
    [k \in DOMAIN defaults |->
        IF k \in DOMAIN config THEN config[k] ELSE defaults[k]]

MergeConfig(config) == Spread(DEFAULT_CONFIG, config)

\* A verdict that requires more than the threshold.
StrictVerdict(similarity, config) == Gt(similarity, config.similarityThreshold)

\* A verdict that also requires a mean distance within distanceThreshold.
VerdictWithinDistance(similarity, config) ==
    /\ Ge(similarity, config.similarityThreshold)
    /\ Ge(similarity, Sub(One, config.distanceThreshold))

\* similarity >= config.similarityThreshold
MatchVerdict(similarity, config) == Ge(similarity, config.similarityThreshold)

\* A result that carries the similarity as computed.
Unclamped(similarity) == similarity

\* Math.max(0, Math.min(1, similarity))
ClampSimilarity(similarity) == Max(Zero, Min(One, similarity))

\* targetRegions.filter(r => currentRegions.includes(r))
ComparedRegions(targetPose, currentPose, config) ==
    LET targetRegions == detectVisibleRegions(targetPose.landmarks, config)
        currentRegions == detectVisibleRegions(currentPose.landmarks, config)
    IN  SelectSeq(targetRegions, LAMBDA r : Includes(currentRegions, r))

\* The result of compareAnglesOnly from the mean angle difference.
AnglesOnlyReturned(meanAngleDiff, similarity, validCount, comparedRegions, config) ==
    Returned(MatchVerdict(similarity, config),
             ClampSimilarity(similarity),
             validCount,
             validCount,
             meanAngleDiff,
             comparedRegions,
             FALSE, <<>>)

\* An angle-only score that is weighted by angleWeight.
AnglesOnlyWeighted(meanAngleDiff, validCount, comparedRegions, config) ==
    AnglesOnlyReturned(meanAngleDiff, Mul(Sub(One, meanAngleDiff), config.angleWeight),
                       validCount, comparedRegions, config)

AnglesOnlyFrom(meanAngleDiff, validCount, comparedRegions, config) ==
    AnglesOnlyReturned(meanAngleDiff, Sub(One, meanAngleDiff), validCount,
                       comparedRegions, config)

AnglesOnlyWith(angleFeatures, targetPose, currentPose, config) ==
    IF angleFeatures.validCount = 0 THEN DegenerateResult
    ELSE AnglesOnlyFrom(Mean(angleFeatures.angles), angleFeatures.validCount,
                        ComparedRegions(targetPose, currentPose, config), config)

AnglesOnlyResult(targetPose, currentPose, config) ==
    AnglesOnlyWith(computeAngleFeatures(targetPose, currentPose),
                   targetPose, currentPose, config)

\* A compareAnglesOnly without its catch clause: the error of normalizePose
\* passes through.
RethrowAnglesOnly(targetPose, currentPose, config) ==
    IF targetPose.threw \/ currentPose.threw
    THEN [outcome |-> "threw", message |-> "No visible landmarks to normalize"]
    ELSE AnglesOnlyResult(targetPose, currentPose, config)

\* What the catch clause of compareAnglesOnly makes of the try block.
CatchAnglesOnly(targetPose, currentPose, config) ==
    IF targetPose.threw \/ currentPose.threw THEN DegenerateResult
    ELSE AnglesOnlyResult(targetPose, currentPose, config)

compareAnglesOnly(targetLandmarks, currentLandmarks, config) ==
    CatchAnglesOnly(normalizePose(targetLandmarks, config),
                    normalizePose(currentLandmarks, config),
                    config)

regionIndices ==
    [upper |-> <<LEFT_SHOULDER, RIGHT_SHOULDER, LEFT_ELBOW, RIGHT_ELBOW>>,
     lower |-> <<LEFT_HIP, RIGHT_HIP, LEFT_KNEE, RIGHT_KNEE, LEFT_ANKLE, RIGHT_ANKLE>>,
     left_arm |-> <<LEFT_SHOULDER, LEFT_ELBOW, LEFT_WRIST>>,
     right_arm |-> <<RIGHT_SHOULDER, RIGHT_ELBOW, RIGHT_WRIST>>]

\* The distances of the landmarks of a region that are visible in both poses.
RegionDistanceValues(targetPose, currentPose, region) ==
    LET indices == SelectSeq(regionIndices[region],
                      LAMBDA idx : /\ Includes(targetPose.visibleLandmarkIndices, idx)
                                   /\ Includes(currentPose.visibleLandmarkIndices, idx))
    IN  [i \in 1..Len(indices) |->
            distance(At(targetPose.landmarks, indices[i]), At(currentPose.landmarks, indices[i]))]

\* A loop that visits every region, compared or not.
EveryRegion(comparedRegions) == DOMAIN regionIndices

\* The regions the loop over regions visits.
RegionsVisited(comparedRegions) == {comparedRegions[i] : i \in 1..Len(comparedRegions)}

RegionDistances(targetPose, currentPose, comparedRegions) ==
    LET keys == {region \in RegionsVisited(comparedRegions) :
                    Len(RegionDistanceValues(targetPose, currentPose, region)) > 0}
    IN  [region \in keys |-> Mean(RegionDistanceValues(targetPose, currentPose, region))]

\* similarity * (1 - angleWeight) + angleSimilarity * angleWeight
\* A blend with the two weights exchanged.
BlendExchanged(similarity, meanAngleDiff, config) ==
    Add(Mul(similarity, config.angleWeight),
        Mul(Sub(One, meanAngleDiff), Sub(One, config.angleWeight)))

Blend(similarity, meanAngleDiff, config) ==
    Add(Mul(similarity, Sub(One, config.angleWeight)),
        Mul(Sub(One, meanAngleDiff), config.angleWeight))

BlendWith(similarity, angleFeatures, config) ==
    IF angleFeatures.validCount > 0
    THEN Blend(similarity, Mean(angleFeatures.angles), config)
    ELSE similarity

\* The similarity after the angles: blended when useAngles is set and some
\* triple is comparable.
WithAngles(similarity, targetPose, currentPose, config) ==
    IF ~config.useAngles THEN similarity
    ELSE BlendWith(similarity, computeAngleFeatures(targetPose, currentPose), config)

\* A result that counts the visible landmarks of the live pose.
CountingCurrent(similarity, meanDistance, validCount, comparedRegions, targetPose, currentPose, config) ==
    Returned(MatchVerdict(similarity, config),
             ClampSimilarity(similarity),
             Len(currentPose.visibleLandmarkIndices),
             validCount,
             meanDistance,
             comparedRegions,
             TRUE,
             RegionDistances(targetPose, currentPose, comparedRegions))

\* The result of comparePoses from the similarity.
StandardReturned(similarity, meanDistance, validCount, comparedRegions, targetPose, currentPose, config) ==
    Returned(MatchVerdict(similarity, config),
             ClampSimilarity(similarity),
             Len(targetPose.visibleLandmarkIndices),
             validCount,
             meanDistance,
             comparedRegions,
             TRUE,
             RegionDistances(targetPose, currentPose, comparedRegions))

StandardFrom(meanDistance, validCount, targetPose, currentPose, config) ==
    StandardReturned(WithAngles(Max(Zero, Sub(One, meanDistance)),
                                targetPose, currentPose, config),
                     meanDistance, validCount,
                     ComparedRegions(targetPose, currentPose, config),
                     targetPose, currentPose, config)

\* An early return that still counts the reference's visible landmarks.
StandardWithCount(distFeatures, targetPose, currentPose, config) ==
    IF distFeatures.validCount = 0
    THEN Returned(FALSE, Zero, Len(targetPose.visibleLandmarkIndices), 0, One,
                  <<>>, FALSE, <<>>)
    ELSE StandardFrom(Mean(distFeatures.distances), distFeatures.validCount,
                      targetPose, currentPose, config)

StandardWith(distFeatures, targetPose, currentPose, config) ==
    IF distFeatures.validCount = 0 THEN DegenerateResult
    ELSE StandardFrom(Mean(distFeatures.distances), distFeatures.validCount,
                      targetPose, currentPose, config)

StandardResult(targetPose, currentPose, config) ==
    StandardWith(computeDistanceFeatures(targetPose, currentPose),
                 targetPose, currentPose, config)

\* The precondition of comparePoses: it throws when this holds.
EmptyInput(targetLandmarks, currentLandmarks) ==
    Len(targetLandmarks) = 0 \/ Len(currentLandmarks) = 0

\* A comparePoses without its catch clause: the error of normalizePose passes
\* through.
RethrowAll(targetPose, currentPose, config) ==
    IF targetPose.threw \/ currentPose.threw
    THEN [outcome |-> "threw", message |-> "No visible landmarks to normalize"]
    ELSE StandardResult(targetPose, currentPose, config)

\* What the catch clause of comparePoses makes of the try block.
CatchAll(targetPose, currentPose, config) ==
    IF targetPose.threw \/ currentPose.threw THEN DegenerateResult
    ELSE StandardResult(targetPose, currentPose, config)

\* comparePoses after the merge of the configuration.
CompareWith(targetLandmarks, currentLandmarks, finalConfig) ==
    IF EmptyInput(targetLandmarks, currentLandmarks) THEN InvalidInput
    ELSE IF finalConfig.angleOnly
    THEN compareAnglesOnly(targetLandmarks, currentLandmarks, finalConfig)
    ELSE CatchAll(normalizePose(targetLandmarks, finalConfig),
                  normalizePose(currentLandmarks, finalConfig),
                  finalConfig)

comparePoses(targetLandmarks, currentLandmarks, config) ==
    CompareWith(targetLandmarks, currentLandmarks, MergeConfig(config))

\* A call that merges the configuration into the module's DEFAULT_CONFIG
\* object itself (Object.assign(DEFAULT_CONFIG, config)).
AssignedDefaults(defaults, config) == Spread(defaults, config)

\* The module's DEFAULT_CONFIG object after a call: the merge spreads it into
\* a new object, and nothing assigns to it.
DefaultsAfter(defaults, config) == defaults

\* The argument objects after a call: every step that changes a landmark
\* (normalizeLandmarksByLimbs, normalizePose) maps into a new array of new
\* objects, and no statement assigns to an argument or to one of its elements.
ArgumentsAfter(targetLandmarks, currentLandmarks, config) ==
    [targetLandmarks |-> targetLandmarks,
     currentLandmarks |-> currentLandmarks,
     config |-> config]

(***************************************************************************)
(* The inputs a caller passes.  Coordinates are multiples of 1/Grid of the *)
(* image (MediaPipe's normalized coordinates are fractions of the image).  *)
(* A pose is a shape (where the joints are), a visibility pattern and a    *)
(* length.                                                                 *)
(***************************************************************************)
GridBits == 6

Grid == 2 ^ GridBits

Coord(k) == Ratio(k, Grid)

PoseLength == 33

ShortLength == 13

Face == 0..10
LeftHand == {17, 19, 21}
RightHand == {18, 20, 22}
LeftFoot == {29, 31}
RightFoot == {30, 32}
UpperBody == 0..22
Limbs == {LEFT_ELBOW, RIGHT_ELBOW, LEFT_WRIST, RIGHT_WRIST,
          LEFT_KNEE, RIGHT_KNEE, LEFT_ANKLE, RIGHT_ANKLE}

\* A person standing, arms down, facing the camera.
Stand(idx) ==
    CASE idx \in Face -> <<32, 10>>
      [] idx = LEFT_SHOULDER -> <<40, 18>>
      [] idx = RIGHT_SHOULDER -> <<24, 18>>
      [] idx = LEFT_ELBOW -> <<44, 28>>
      [] idx = RIGHT_ELBOW -> <<20, 28>>
      [] idx = LEFT_WRIST -> <<46, 38>>
      [] idx = RIGHT_WRIST -> <<18, 38>>
      [] idx \in LeftHand -> <<46, 40>>
      [] idx \in RightHand -> <<18, 40>>
      [] idx = LEFT_HIP -> <<38, 42>>
      [] idx = RIGHT_HIP -> <<26, 42>>
      [] idx = LEFT_KNEE -> <<38, 52>>
      [] idx = RIGHT_KNEE -> <<26, 52>>
      [] idx = LEFT_ANKLE -> <<38, 62>>
      [] idx = RIGHT_ANKLE -> <<26, 62>>
      [] idx \in LeftFoot -> <<38, 64>>
      [] OTHER -> <<26, 64>>

\* The same person, left arm raised, right arm stretched out, one knee bent.
Raise(idx) ==
    CASE idx = LEFT_ELBOW -> <<48, 12>>
      [] idx = LEFT_WRIST -> <<50, 2>>
      [] idx \in LeftHand -> <<50, 0>>
      [] idx = RIGHT_ELBOW -> <<14, 22>>
      [] idx = RIGHT_WRIST -> <<4, 22>>
      [] idx \in RightHand -> <<2, 22>>
      [] idx = LEFT_KNEE -> <<46, 50>>
      [] OTHER -> Stand(idx)

\* The same person seen from the side: shoulders and hips almost aligned.
Side(idx) ==
    CASE idx = LEFT_SHOULDER -> <<33, 18>>
      [] idx = RIGHT_SHOULDER -> <<31, 18>>
      [] idx = LEFT_HIP -> <<33, 42>>
      [] idx = RIGHT_HIP -> <<31, 42>>
      [] OTHER -> Stand(idx)

\* The same person, left forearm folded back on the upper arm, right knee
\* drawn up.
Bend(idx) ==
    CASE idx = LEFT_WRIST -> <<41, 19>>
      [] idx \in LeftHand -> <<40, 18>>
      [] idx = RIGHT_KNEE -> <<26, 34>>
      [] idx = RIGHT_ANKLE -> <<26, 43>>
      [] idx \in RightFoot -> <<26, 44>>
      [] OTHER -> Stand(idx)

\* The same person with every elbow, knee and hip at a right angle.
Angled(idx) ==
    CASE idx = LEFT_WRIST -> <<54, 24>>
      [] idx \in LeftHand -> <<56, 24>>
      [] idx = RIGHT_WRIST -> <<10, 24>>
      [] idx \in RightHand -> <<8, 24>>
      [] idx = LEFT_KNEE -> <<50, 43>>
      [] idx = LEFT_ANKLE -> <<49, 55>>
      [] idx \in LeftFoot -> <<49, 57>>
      [] idx = RIGHT_KNEE -> <<14, 43>>
      [] idx = RIGHT_ANKLE -> <<15, 55>>
      [] idx \in RightFoot -> <<15, 57>>
      [] OTHER -> Stand(idx)

ShapeXY(shape, idx) ==
    CASE shape = "stand" -> Stand(idx)
      [] shape = "raise" -> Raise(idx)
      [] shape = "bend" -> Bend(idx)
      [] shape = "angled" -> Angled(idx)
      [] OTHER -> Side(idx)

\* The depth: the raised pose comes with depths, the others without.
ShapeZ(shape, idx) ==
    IF shape = "raise"
    THEN (IF idx \in {LEFT_WRIST, RIGHT_WRIST} THEN Coord(-8) ELSE Zero)
    ELSE Undefined

Seen == One

Dim == Ratio(3, 8)

\* The visibility of each landmark: 1 (seen), 3/8 (dim: below the default
\* threshold 0.5, above the anchors' 0.3), 0 or absent.
Visibility(pattern, idx) ==
    CASE pattern = "full" -> Seen
      [] pattern = "unset" -> Undefined
      [] pattern = "hidden" -> Zero
      [] pattern = "upperOnly" -> (IF idx \in UpperBody THEN Seen ELSE Zero)
      [] pattern = "lowerOnly" -> (IF idx \in UpperBody THEN Zero ELSE Seen)
      [] pattern = "faceOnly" -> (IF idx \in Face THEN Seen ELSE Zero)
      [] pattern = "dimHips" -> (IF idx \in {LEFT_HIP, RIGHT_HIP} THEN Dim ELSE Seen)
      [] OTHER -> (IF idx \in Limbs THEN Seen ELSE Zero)

(***************************************************************************)
(* What a caller changes between two calls: it translates the pose by      *)
(* shift (grid units), scales every coordinate by factor, or moves one     *)
(* joint (moved) by MoveOffset.                                            *)
(***************************************************************************)
\* The translations of the live pose, in grid units.
Shifts == {<<8, -4>>}

\* The factors of the scaling of the live pose: 2^-MaxShrink, 1/4 and 2.
\* Powers of two, so that the scaling itself is exact.
MaxShrink == 6

Factors == {Round(1, -MaxShrink), Round(1, -2), Round(1, 1)}

\* The joints a caller moves while they are below the visibility threshold.
MovedJoints == {LEFT_HIP}

MoveOffset == <<6, 10>>

\* No joint is moved: an index outside every pose.
NoJoint == PoseLength

\* A pose as the caller describes it.
Describe(shape, pattern, length) ==
    [shape |-> shape, pattern |-> pattern, length |-> length,
     shift |-> <<0, 0>>, factor |-> One, moved |-> NoJoint]

GridXY(pose, idx) ==
    LET at == ShapeXY(pose.shape, idx)
        off == IF idx = pose.moved THEN MoveOffset ELSE <<0, 0>>
    IN  <<at[1] + off[1] + pose.shift[1], at[2] + off[2] + pose.shift[2]>>

MakeLandmark(pose, idx) ==
    [x |-> Mul(Coord(GridXY(pose, idx)[1]), pose.factor),
     y |-> Mul(Coord(GridXY(pose, idx)[2]), pose.factor),
     z |-> IF ShapeZ(pose.shape, idx) = Undefined THEN Undefined
           ELSE Mul(ShapeZ(pose.shape, idx), pose.factor),
     visibility |-> Visibility(pose.pattern, idx)]

\* The landmark array passed to comparePoses.
Landmarks(pose) == Array([i \in 1..pose.length |-> MakeLandmark(pose, i - 1)])

\* The poses a caller passes: empty, cut short after the shoulders, or whole.
PoseKinds ==
    {<<"stand", "full">>, <<"stand", "hidden">>, <<"stand", "upperOnly">>,
     <<"stand", "dimHips">>, <<"stand", "limbsOnly">>,
     <<"raise", "unset">>, <<"raise", "lowerOnly">>, <<"side", "upperOnly">>}

Poses ==
    {Describe("stand", "full", 0), Describe("stand", "full", ShortLength)}
    \cup {Describe(k[1], k[2], PoseLength) : k \in PoseKinds}

\* The configurations a caller passes: every option is optional.
Modes ==
    {<<>>,
     [useAngles |-> TRUE],
     [useAngles |-> TRUE, angleWeight |-> Num(2)],
     [useAngles |-> TRUE, angleWeight |-> Num(-1)],
     [angleOnly |-> TRUE]}

Configs ==
    Modes
    \cup {[similarityThreshold |-> Zero],
          [angleOnly |-> TRUE, similarityThreshold |-> One],
          [useAngles |-> TRUE, angleWeight |-> Num(2), similarityThreshold |-> Ratio(9, 8)],
          [useAngles |-> TRUE, angleWeight |-> Num(-1), similarityThreshold |-> Ratio(9, 8)]}
    \cup {[perLimbNormalization |-> TRUE],
          [angleOnly |-> TRUE, perLimbNormalization |-> TRUE]}
    \cup {[visibilityThreshold |-> Ratio(1, 4)]}

(***************************************************************************)
(* The state: the arguments of the call at hand (target and current        *)
(* describe the two landmark arrays) and its result; after a change, the   *)
(* arguments and the result of the call before it (base) and what was      *)
(* changed.                                                                *)
(***************************************************************************)
\* heap holds the objects a call can reach beside its locals: the module's
\* DEFAULT_CONFIG object, and the argument objects of the last call as that
\* call left them.
VARIABLES target, current, config, result, base, change, pc, heap

callVars == <<target, current, config, result, base, change, pc, heap>>

\* The state of a call of computeAngle on its own: the three points (in
\* tenths) and the angle returned.
VARIABLES points, angle

angleVars == <<points, angle>>

\* The state of a call of normalizePose on its own: its local
\* landmarksToNormalize and the value it returns; and the value a call of
\* computeAngleFeatures on its own returns.
VARIABLES landmarksToNormalize, normalized, features

normalizeVars == <<landmarksToNormalize, normalized, features>>

(***************************************************************************)
(* StatuesqueGame (the component with TOTAL_LEVELS).  A pose of the        *)
(* catalogue is known by its id; arrays are sequences, the element of      *)
(* index i (from 0) at i + 1.                                              *)
(***************************************************************************)
TOTAL_LEVELS == 5

MATCH_THRESHOLD == Ratio(1, 2)

COUNTDOWN_LEN == 2

BETWEEN_LEVEL == 3

totalPoses == 2 + 3 + 4 + 5 + 6

Null == <<>>

\* new Array(n).fill(v)
Fill(n, v) == [i \in 1..n |-> v]

\* arr.slice(0, n)
Slice(arr, n) == SubSeq(arr, 1, IF n < Len(arr) THEN n ELSE Len(arr))

\* updated[index] = v, on a copy of arr
SetAt(arr, index, v) ==
    IF index < Len(arr) THEN [arr EXCEPT ![index + 1] = v]
    ELSE arr \o Fill(index - Len(arr), Null) \o <<v>>

\* availablePoses.find(p => p.id === id) finds a pose
Found(available, id) == \E i \in 1..Len(available) : available[i] = id

\* Math.floor(Math.random() * n), for the number r that Math.random returns
RandomIndex(r, n) == Floor(Mul(r, Num(n)))

\* The sequence of a new game: TOTAL_LEVELS + 1 ids drawn from the catalogue.
NewSequence(available, draw) ==
    [i \in 1..(TOTAL_LEVELS + 1) |->
        available[RandomIndex(draw[i], Len(available)) + 1]]

\* The last count ids of the sequence (sequence.slice(-count)).
LastPoseIds(sequence, count) ==
    SubSeq(sequence, IF count < Len(sequence) THEN Len(sequence) - count + 1 ELSE 1,
           Len(sequence))

\* The ids of a level: the first count ids of the sequence.
LevelPoseIds(sequence, count) == Slice(sequence, count)

\* The poses of a level: those of its ids that the catalogue holds.
PosesForLevel(available, ids) == SelectSeq(ids, LAMBDA id : Found(available, id))

\* What the second pass of the load effect sets.
LevelLoaded(sequence, posesForLevel) ==
    [poseSequence |-> sequence,
     selectedPoses |-> posesForLevel,
     matches |-> Fill(Len(posesForLevel), FALSE),
     similarityResults |-> Fill(Len(posesForLevel), Null)]

\* The load effect, run until nothing it depends on changes: it does nothing
\* unless the game has started with poses available; it draws the sequence
\* when there is none and runs again; it then selects the poses of the level
\* and resets matches and similarityResults.  before holds the four pieces of
\* state as they are when it runs.
LoadPoses(isStarted, available, count, draw, before) ==
    IF ~isStarted \/ Len(available) = 0 THEN before
    ELSE IF Len(before.poseSequence) = 0
    THEN LevelLoaded(NewSequence(available, draw),
                     PosesForLevel(available,
                                   LevelPoseIds(NewSequence(available, draw), count)))
    ELSE LevelLoaded(before.poseSequence,
                     PosesForLevel(available, LevelPoseIds(before.poseSequence, count)))

\* selectedPoses[index] || null is a pose
HasPose(selected, index) == index < Len(selected)

\* What the countdown effect does when something it depends on has changed:
\* the interval is cleared, and set again if the game has started and there
\* is a current pose.
Countdown(isStarted, selected, index) ==
    IF isStarted /\ HasPose(selected, index) THEN COUNTDOWN_LEN ELSE 0

\* A level whose last pose is over is followed by another level, always.
AlwaysAnotherLevel(lvl) == "level-complete"

\* The phase after the last webcam pose of a level (anyFailed is false).
AfterLastPose(lvl) == IF lvl < TOTAL_LEVELS THEN "level-complete" ELSE "ending"

\* comparisonResultRef.current?.similarity ?? 0
SimilarityOf(ref) == IF ref = Null THEN Zero ELSE ref

\* matches.filter(m => m).length
MatchedCount(flags) == Cardinality({i \in 1..Len(flags) : flags[i]})

\* Math.round((matched / totalPoses) * 100)
Accuracy(flags) == Floor(Add(Mul(Div(Num(MatchedCount(flags)), Num(totalPoses)), Num(100)), Ratio(1, 2)))

\* The catalogues that extraction can leave: none (it failed or found
\* nothing), one pose, two poses.
Catalogues == {<<>>, <<"zeus">>, <<"zeus", "hera">>}

\* The numbers Math.random returns during one generation of a sequence.
Draws ==
    {<<Zero, Zero, Zero, Zero, Zero, Zero>>,
     <<Zero, Ratio(1, 2), Zero, Ratio(1, 2), Ratio(7, 8), Zero>>,
     <<Ratio(7, 8), Zero, Zero, Ratio(1, 2), Zero, Ratio(3, 8)>>}

\* The similarities a comparison during the webcam phase can leave in the
\* ref: here MATCH_THRESHOLD itself, the least that counts as a match.  The
\* similarity recorded for a pose is this one, or 0 when no comparison was
\* made since the ref was cleared.
Similarities == {Ratio(1, 2)}

\* The history of a game in which nothing has been shown yet.
NothingPlayed == [l \in 1..TOTAL_LEVELS |-> <<>>]

\* The history after the pose of the given index is put on display.
Shown(history, lvl, selected, index) ==
    IF HasPose(selected, index) /\ lvl \in DOMAIN history
    THEN [history EXCEPT ![lvl] = Append(@, selected[index + 1])]
    ELSE history

(***************************************************************************)
(* The second StatuesqueGame of the same file (the component without       *)
(* TOTAL_LEVELS, whose levels go on until a pose fails): level N plays N   *)
(* poses, and the sequence is extended when a level needs more ids than it *)
(* holds.                                                                  *)
(***************************************************************************)
\* The levels the model follows the second component through.
MaxLevel == 18

\* The generators of random numbers: the i-th number that Math.random returns
\* is a multiple of 1/8 that depends on the seed.
Seeds == 0..7

DrawAt(seed, i) == Ratio((i * seed) % 8, 8)

\* Math.max(level + 10, 16)
InitialSequenceLength(lvl) == IF lvl + 10 > 16 THEN lvl + 10 ELSE 16

\* The ids pushed at the positions first..last of a sequence.
RandomIds(available, seed, first, last) ==
    [i \in 1..(last - first + 1) |->
        available[RandomIndex(DrawAt(seed, first + i - 1), Len(available)) + 1]]

\* The sequence after the pass of the load effect that extends it: ids are
\* pushed until it holds count + 10 of them, if it holds fewer than count.
Extended(available, sequence, count, seed) ==
    IF Len(sequence) < count
    THEN sequence \o RandomIds(available, seed, Len(sequence) + 1, count + 10)
    ELSE sequence

\* What the last pass of the load effect of the second component sets (it
\* has no matches).
EndlessLoaded(sequence, posesForLevel, before) ==
    [poseSequence |-> sequence,
     selectedPoses |-> posesForLevel,
     matches |-> before.matches,
     similarityResults |-> Fill(Len(posesForLevel), Null)]

\* The load effect of the second component, run until nothing it depends on
\* changes: the sequence is drawn when there is none, extended when the
\* level needs more of it, and the poses of the level are selected from
\* the sequence as it then is.
EndlessLoadFrom(available, sequence, count, before) ==
    EndlessLoaded(sequence, PosesForLevel(available, LevelPoseIds(sequence, count)), before)

EndlessLoadPoses(isStarted, available, lvl, seed, before) ==
    IF ~isStarted \/ Len(available) = 0 THEN before
    ELSE IF Len(before.poseSequence) = 0
    THEN EndlessLoadFrom(available,
                         Extended(available,
                                  RandomIds(available, seed, 1, InitialSequenceLength(lvl)),
                                  lvl, seed),
                         lvl, before)
    ELSE EndlessLoadFrom(available, Extended(available, before.poseSequence, lvl, seed),
                         lvl, before)

\* The history of a game of the second component in which nothing has been
\* shown yet.
EndlessNothingPlayed == [l \in 1..MaxLevel |-> <<>>]

\* The two components of StatuesqueGame.tsx.
Components == {"five levels", "endless"}

(***************************************************************************)
(* WebcamCapture.  The video element is mounted; srcObject is 0 when it is *)
(* null and the number of a stream otherwise; rafRef is 0 when it is null. *)
(* currentLandmarksRef is <<>> when it holds null and <<array>> when it    *)
(* holds an array, which may be empty.                                     *)
(***************************************************************************)
\* The most start() calls that are made.
MaxStarts == 2

\* mediapipeResult.landmarks?.[poseIndex]: a list of at most one array.
PoseAt(list, poseIndex) ==
    IF poseIndex < Len(list) THEN <<list[poseIndex + 1]>> ELSE <<>>

\* landmarks?.[poseIndex] || worldLandmarks?.[poseIndex] || []
LandmarkList(mediapipeResult, poseIndex) ==
    IF PoseAt(mediapipeResult.landmarks, poseIndex) # <<>>
    THEN PoseAt(mediapipeResult.landmarks, poseIndex)[1]
    ELSE IF PoseAt(mediapipeResult.worldLandmarks, poseIndex) # <<>>
    THEN PoseAt(mediapipeResult.worldLandmarks, poseIndex)[1]
    ELSE <<>>

\* What predictWebcam stores in currentLandmarksRef: the array that
\* extractLandmarksFromResult returns.
Extracted(mediapipeResult, poseIndex) ==
    <<Array([i \in 1..Len(LandmarkList(mediapipeResult, poseIndex)) |->
        [x |-> OrElse(LandmarkList(mediapipeResult, poseIndex)[i].x, Zero),
         y |-> OrElse(LandmarkList(mediapipeResult, poseIndex)[i].y, Zero),
         z |-> LandmarkList(mediapipeResult, poseIndex)[i].z,
         visibility |-> LandmarkList(mediapipeResult, poseIndex)[i].visibility]])>>

extractLandmarksFromResult(mediapipeResult, poseIndex) ==
    Extracted(mediapipeResult, poseIndex)[1]

\* The results detectForVideo hands to its callback: no pose in the picture,
\* a pose, a pose with world landmarks only.
Detections ==
    {[landmarks |-> <<>>, worldLandmarks |-> <<>>],
     [landmarks |-> <<Landmarks(Describe("stand", "full", PoseLength))>>,
      worldLandmarks |-> <<Landmarks(Describe("stand", "full", PoseLength))>>],
     [landmarks |-> Undefined,
      worldLandmarks |-> <<Landmarks(Describe("raise", "unset", PoseLength))>>]}

\* The reference pose and the options of the comparison callback.
PolledReference == Landmarks(Describe("stand", "full", PoseLength))

PolledOptions ==
    [visibilityThreshold |-> Ratio(1, 2),
     distanceThreshold |-> Ratio(1, 5),
     similarityThreshold |-> Ratio(11, 20),
     useAngles |-> TRUE,
     angleWeight |-> Ratio(2, 5)]

\* No tick of the comparison callback yet.
NotPolled == [tick |-> "none", live |-> 0, outcome |-> "none"]

\* A tick that returns at if (!landmarks).
Skipped == [tick |-> "skipped", live |-> 0, outcome |-> "none"]

\* A tick that calls comparePoses with the array the ref holds.
Polled(held) ==
    IF held = <<>> THEN Skipped
    ELSE [tick |-> "called", live |-> Len(held[1]),
          outcome |-> comparePoses(PolledReference, held[1], PolledOptions).outcome]

\* The id requestAnimationFrame returns: positive, and one that no request has.
NewFrame(pending, ref) ==
    CHOOSE id \in 1..(Cardinality(pending) + 2) : id \notin pending \cup {ref}

\* The state of WebcamCapture: its refs, the video element's stream and the
\* streams whose tracks are live, the animation frames requested, the
\* loadeddata listener and the event when it is due, each call of start() and
\* the calls of predictWebcam that await setOptions; which of start() and stop()
\* was called last; what the last tick of the comparison callback did.
VARIABLES poseLandmarkerRef, srcObject, liveTracks, webcamRunningRef, rafRef,
          frames, listening, loadPending, starts, settingOptions,
          runningModeRef, currentLandmarksRef, lastCalled, polled

webcamVars ==
    <<poseLandmarkerRef, srcObject, liveTracks, webcamRunningRef, rafRef,
      frames, listening, loadPending, starts, settingOptions,
      runningModeRef, currentLandmarksRef, lastCalled, polled>>

\* The state of the StatuesqueGame component: its React state, the ref that
\* holds the last comparison (the similarity of it, or Null), and the two
\* intervals (the seconds left of each, 0 when it is cleared).  played and
\* recorded are the history of the game at hand: the poses shown at each
\* level, and the number of recorded similarities that reached
\* MATCH_THRESHOLD.
VARIABLES started, level, phase, poseIndex, availablePoses, selectedPoses,
          poseSequence, matches, similarityResults, isExtracting,
          isWebcamReady, comparisonResultRef, countdownInterval,
          levelInterval, played, recorded, component, comparedFor,
          comparisonIntervalRef, timers

reactVars ==
    <<started, level, phase, poseIndex, availablePoses, selectedPoses,
      poseSequence, matches, similarityResults, isExtracting, isWebcamReady>>

pageVars ==
    <<reactVars, comparisonResultRef, countdownInterval, levelInterval, played,
      recorded, component, comparedFor, comparisonIntervalRef, timers>>

gameVars == <<pageVars, webcamVars>>

\* The pose on display or being compared: selectedPoses[poseIndex] || null,
\* as a sequence of at most one pose.
CurrentPose(selected, index) ==
    IF HasPose(selected, index) THEN <<selected[index + 1]>> ELSE <<>>

\* The comparison effect goes past its first line.
StartsComparing(phaseNow, poseNow) == phaseNow = "webcam" /\ poseNow # <<>>

\* A cleanup that leaves the interval running.
ClearedNothing(active, ref) == active

\* The cleanup of the comparison effect: clearInterval of the id the ref holds.
Cleared(active, ref) == IF ref # 0 THEN active \ {ref} ELSE active

\* The id setInterval returns: positive, and one that no interval has, active
\* or held by the ref.
NewTimer(active, ref) ==
    CHOOSE id \in 1..(Cardinality(active) + 2) : id \notin active \cup {ref}

\* The intervals that are left when the effect that set the last one up is
\* cleaned up; an effect that returned at its first line has no cleanup.
AfterCleanup ==
    IF StartsComparing(phase, CurrentPose(selectedPoses, poseIndex))
    THEN Cleared(timers, comparisonIntervalRef)
    ELSE timers

\* The comparison effect after an event: when phase or currentPose has
\* changed, the cleanup of its last run is called and it runs again.
ComparisonEffect ==
    IF /\ phase' = phase
       /\ CurrentPose(selectedPoses', poseIndex') = CurrentPose(selectedPoses, poseIndex)
    THEN UNCHANGED <<comparisonIntervalRef, timers>>
    ELSE IF StartsComparing(phase', CurrentPose(selectedPoses', poseIndex'))
    THEN /\ comparisonIntervalRef' = NewTimer(AfterCleanup, comparisonIntervalRef)
         /\ timers' = AfterCleanup \cup {comparisonIntervalRef'}
    ELSE /\ timers' = AfterCleanup
         /\ UNCHANGED comparisonIntervalRef

\* No comparison has left a result in the ref.
NoComparison == [game |-> "none", level |-> 0, poseIndex |-> 0]

\* The countdown during which a comparison is made.
ThisCountdown == [game |-> "this", level |-> level, poseIndex |-> poseIndex]

\* A comparison of the game at hand becomes one of an earlier game.
Earlier(comparison) ==
    IF comparison.game = "this" THEN [comparison EXCEPT !.game = "earlier"]
    ELSE comparison

vars == <<callVars, angleVars, normalizeVars, gameVars>>

targetLandmarks == Landmarks(target)

currentLandmarks == Landmarks(current)

NoResult == [outcome |-> "none"]

NoChange == "none"

\* No call has been made: no argument object yet.
NoArguments == <<>>

\* WebcamCapture after its first render: the model is not loaded yet.
WebcamMounted ==
    /\ poseLandmarkerRef = FALSE
    /\ srcObject = 0
    /\ liveTracks = {}
    /\ webcamRunningRef = FALSE
    /\ rafRef = 0
    /\ frames = {}
    /\ listening = FALSE
    /\ loadPending = FALSE
    /\ starts = [i \in 1..MaxStarts |-> "idle"]
    /\ settingOptions = 0
    /\ runningModeRef = "IMAGE"
    /\ currentLandmarksRef = <<>>
    /\ lastCalled = "none"
    /\ polled = NotPolled

\* The state of a component that has just been mounted.
Mounted ==
    /\ started = FALSE
    /\ level = 1
    /\ phase = "idle"
    /\ poseIndex = 0
    /\ availablePoses = <<>>
    /\ selectedPoses = <<>>
    /\ poseSequence = <<>>
    /\ matches = <<>>
    /\ similarityResults = <<>>
    /\ isExtracting = TRUE
    /\ isWebcamReady = FALSE
    /\ comparisonResultRef = Null
    /\ countdownInterval = 0
    /\ levelInterval = 0
    /\ played = NothingPlayed
    /\ recorded = 0
    /\ comparedFor = NoComparison
    /\ comparisonIntervalRef = 0
    /\ timers = {}
    /\ WebcamMounted

\* No game is played.
NoGame == Mounted /\ component = "five levels"

NoAngle == <<>>

\* computeAngle is not called on its own.
NoAngleCall == points = <<>> /\ angle = NoAngle

\* A local that has not been assigned, a call that has not returned.
NotAssigned == <<>>

\* normalizePose is not called on its own.
NoNormalizeCall ==
    landmarksToNormalize = NotAssigned /\ normalized = NotAssigned /\ features = NotAssigned

Init ==
    /\ target \in Poses
    /\ current \in Poses
    /\ config \in Configs
    /\ result = NoResult
    /\ base = [target |-> target, current |-> current, result |-> NoResult]
    /\ change = NoChange
    /\ pc = "ready"
    /\ heap = [DEFAULT_CONFIG |-> DEFAULT_CONFIG, arguments |-> NoArguments]
    /\ NoAngleCall
    /\ NoNormalizeCall
    /\ NoGame

\* The call: comparePoses(targetLandmarks, currentLandmarks, config), in the
\* module state the calls before it have left.
Compare ==
    /\ pc \in {"ready", "changed"}
    /\ result' = CompareWith(targetLandmarks, currentLandmarks,
                             Spread(heap.DEFAULT_CONFIG, config))
    /\ heap' = [DEFAULT_CONFIG |-> DefaultsAfter(heap.DEFAULT_CONFIG, config),
                arguments |-> ArgumentsAfter(targetLandmarks, currentLandmarks, config)]
    /\ pc' = IF pc = "ready" THEN "compared" ELSE "done"
    /\ UNCHANGED <<target, current, config, base, change>>
    /\ UNCHANGED <<angleVars, normalizeVars, gameVars>>

Snapshot == [target |-> target, current |-> current, result |-> result]

\* The caller translates every joint of the live pose by a constant vector.
TranslateLive ==
    /\ pc = "compared" /\ result.outcome = "returned"
    /\ \E d \in Shifts : current' = [current EXCEPT !.shift = d]
    /\ change' = "translate"
    /\ base' = Snapshot
    /\ pc' = "changed"
    /\ UNCHANGED <<target, config, result, heap>>
    /\ UNCHANGED <<angleVars, normalizeVars, gameVars>>

\* The caller scales every coordinate of the live pose by a constant factor.
ScaleLive ==
    /\ pc = "compared" /\ result.outcome = "returned"
    /\ \E k \in Factors : current' = [current EXCEPT !.factor = k]
    /\ change' = "scale"
    /\ base' = Snapshot
    /\ pc' = "changed"
    /\ UNCHANGED <<target, config, result, heap>>
    /\ UNCHANGED <<angleVars, normalizeVars, gameVars>>

\* The joint idx of the pose passes the visibility filter of the call.
JointVisible(pose, idx) ==
    /\ idx < pose.length
    /\ PassesFilter([visibility |-> Visibility(pose.pattern, idx)], MergeConfig(config))

\* The joint idx of the pose is below the visibility threshold.
Filtered(pose, idx) == idx < pose.length /\ ~JointVisible(pose, idx)

\* The caller moves one joint of a pose in which that joint is below the
\* visibility threshold.
MoveHiddenJoint ==
    /\ pc = "compared" /\ result.outcome = "returned"
    /\ \E idx \in MovedJoints :
         \/ /\ Filtered(target, idx)
            /\ target' = [target EXCEPT !.moved = idx]
            /\ UNCHANGED current
         \/ /\ Filtered(current, idx)
            /\ current' = [current EXCEPT !.moved = idx]
            /\ UNCHANGED target
    /\ change' = "move"
    /\ base' = Snapshot
    /\ pc' = "changed"
    /\ UNCHANGED <<config, result, heap>>
    /\ UNCHANGED <<angleVars, normalizeVars, gameVars>>

\* The values a caller gives the distanceThreshold option (the game passes
\* 0.2).
DistanceThresholds == {Ratio(1, 5)}

\* { ...config, [key]: value }
WithOption(options, key, value) ==
    [k \in DOMAIN options \cup {key} |-> IF k = key THEN value ELSE options[k]]

\* The caller repeats the call with another distanceThreshold and everything
\* else as it was.
SetDistanceThreshold ==
    /\ pc = "compared"
    /\ \E d \in DistanceThresholds :
         /\ d /= MergeConfig(config).distanceThreshold
         /\ config' = WithOption(config, "distanceThreshold", d)
    /\ change' = "threshold"
    /\ base' = Snapshot
    /\ pc' = "changed"
    /\ UNCHANGED <<target, current, result, heap>>
    /\ UNCHANGED <<angleVars, normalizeVars, gameVars>>

\* The configurations of a call that follows another call.
NextConfigs == {<<>>}

\* The caller makes a further call, on the same arrays with another
\* configuration object.
CallAgain ==
    /\ pc = "compared"
    /\ config' \in NextConfigs
    /\ change' = "again"
    /\ base' = Snapshot
    /\ pc' = "changed"
    /\ UNCHANGED <<target, current, result, heap>>
    /\ UNCHANGED <<angleVars, normalizeVars, gameVars>>

Next ==
    \/ Compare
    \/ TranslateLive
    \/ ScaleLive
    \/ MoveHiddenJoint
    \/ SetDistanceThreshold
    \/ CallAgain

Spec == Init /\ [][Next]_vars

\* A single call of comparePoses, with nothing before it and nothing after.
CallNext == Compare

CallSpec == Init /\ [][CallNext]_vars

(***************************************************************************)
(* computeAngle on its own: a caller passes three points whose coordinates *)
(* are tenths (most of them inexact in binary), the middle point b among   *)
(* them.                                                                   *)
(***************************************************************************)
AngleRange == 2

AnglePoints == (-AngleRange..AngleRange) \X (-AngleRange..AngleRange)

MiddlePoints == {<<0, 0>>, <<1, -2>>}

\* The landmark of a point given in tenths.
PointLandmark(p) ==
    [x |-> Ratio(p[1], 10), y |-> Ratio(p[2], 10), z |-> Undefined, visibility |-> Undefined]

NoCall ==
    /\ target = Describe("stand", "full", 0)
    /\ current = Describe("stand", "full", 0)
    /\ config = <<>>
    /\ result = NoResult
    /\ base = [target |-> target, current |-> current, result |-> NoResult]
    /\ change = NoChange
    /\ pc = "idle"
    /\ heap = [DEFAULT_CONFIG |-> DEFAULT_CONFIG, arguments |-> NoArguments]

AngleInit ==
    /\ points \in AnglePoints \X MiddlePoints \X AnglePoints
    /\ angle = NoAngle
    /\ NoCall
    /\ NoNormalizeCall
    /\ NoGame

\* The call: computeAngle(a, b, c).
ComputeAngle ==
    /\ angle = NoAngle
    /\ angle' = computeAngle(PointLandmark(points[1]), PointLandmark(points[2]),
                             PointLandmark(points[3]))
    /\ UNCHANGED points
    /\ UNCHANGED <<callVars, normalizeVars, gameVars>>

AngleNext == ComputeAngle

AngleSpec == AngleInit /\ [][AngleNext]_vars

(***************************************************************************)
(* normalizePose on its own: a caller passes a landmark array and a        *)
(* complete configuration.  The array is described by target, the          *)
(* configuration is the merge of config.                                   *)
(***************************************************************************)
\* The poses passed: those of comparePoses, a pose of which only the face is
\* seen, and two poses that are tiny in the image.
NormalizePoses ==
    Poses
    \cup {Describe("stand", "faceOnly", PoseLength)}
    \cup {[Describe("stand", k, PoseLength) EXCEPT !.factor = Round(1, -MaxShrink)] :
             k \in {"full", "upperOnly"}}

\* The options normalizePose reads: visibilityThreshold and
\* perLimbNormalization.
NormalizeConfigs ==
    {WithOption(c, "perLimbNormalization", b) :
       c \in {<<>>, [visibilityThreshold |-> Ratio(1, 4)], [visibilityThreshold |-> Zero]},
       b \in BOOLEAN}

NormalizeInit ==
    /\ target \in NormalizePoses
    /\ current = target
    /\ config \in NormalizeConfigs
    /\ result = NoResult
    /\ base = [target |-> target, current |-> current, result |-> NoResult]
    /\ change = NoChange
    /\ pc = "normalize"
    /\ heap = [DEFAULT_CONFIG |-> DEFAULT_CONFIG, arguments |-> NoArguments]
    /\ NoNormalizeCall
    /\ NoAngleCall
    /\ NoGame

\* The local landmarksToNormalize when normalizePose ends: not assigned when
\* it throws before.
LocalLandmarks(landmarks, finalOptions) ==
    IF Len(filterVisibleLandmarks(landmarks, finalOptions)) = 0 THEN NotAssigned
    ELSE LandmarksToNormalize(landmarks, finalOptions)

\* The call: normalizePose(landmarks, config).
Normalize ==
    /\ pc = "normalize"
    /\ landmarksToNormalize' = LocalLandmarks(targetLandmarks, MergeConfig(config))
    /\ normalized' = normalizePose(targetLandmarks, MergeConfig(config))
    /\ pc' = "normalized"
    /\ UNCHANGED features
    /\ UNCHANGED <<target, current, config, result, base, change, heap>>
    /\ UNCHANGED <<angleVars, gameVars>>

NormalizeNext == Normalize

NormalizeSpec == NormalizeInit /\ [][NormalizeNext]_vars

(***************************************************************************)
(* computeAngleFeatures on its own: a caller passes two normalized poses,  *)
(* the values of normalizePose for target and for current.                 *)
(***************************************************************************)
\* The poses passed: those of comparePoses, a pose with folded limbs and a
\* pose with limbs at right angles.
FeaturePoses ==
    Poses
    \cup {Describe("bend", k, PoseLength) : k \in {"full", "limbsOnly"}}
    \cup {Describe("angled", "full", PoseLength)}

FeatureConfigs ==
    {<<>>, [visibilityThreshold |-> Ratio(1, 4)], [perLimbNormalization |-> TRUE]}

FeatureInit ==
    /\ target \in FeaturePoses
    /\ current \in FeaturePoses
    /\ config \in FeatureConfigs
    /\ result = NoResult
    /\ base = [target |-> target, current |-> current, result |-> NoResult]
    /\ change = NoChange
    /\ pc = "features"
    /\ heap = [DEFAULT_CONFIG |-> DEFAULT_CONFIG, arguments |-> NoArguments]
    /\ NoNormalizeCall
    /\ NoAngleCall
    /\ NoGame

\* The features of two values of normalizePose; there is no call when
\* normalizePose threw.
FeaturesOf(targetPose, currentPose) ==
    IF targetPose.threw \/ currentPose.threw THEN NotAssigned
    ELSE computeAngleFeatures(targetPose, currentPose)

\* The call: computeAngleFeatures(targetPose, currentPose).
ComputeAngleFeatures ==
    /\ pc = "features"
    /\ SomeVisibleIn(targetLandmarks, MergeConfig(config))
    /\ SomeVisibleIn(currentLandmarks, MergeConfig(config))
    /\ features' = FeaturesOf(normalizePose(targetLandmarks, MergeConfig(config)),
                              normalizePose(currentLandmarks, MergeConfig(config)))
    /\ pc' = "featured"
    /\ UNCHANGED <<landmarksToNormalize, normalized>>
    /\ UNCHANGED <<target, current, config, result, base, change, heap>>
    /\ UNCHANGED <<angleVars, gameVars>>

FeatureNext == ComputeAngleFeatures

FeatureSpec == FeatureInit /\ [][FeatureNext]_vars

(***************************************************************************)
(* comparePoses in angle-only mode, on the same poses.                     *)
(***************************************************************************)
AnglesOnlyConfigs ==
    {[angleOnly |-> TRUE],
     [angleOnly |-> TRUE, perLimbNormalization |-> TRUE],
     [angleOnly |-> TRUE, visibilityThreshold |-> Ratio(1, 4)],
     [angleOnly |-> TRUE, similarityThreshold |-> Ratio(3, 4)]}

AnglesOnlyInit ==
    /\ target \in FeaturePoses
    /\ current \in FeaturePoses
    /\ config \in AnglesOnlyConfigs
    /\ result = NoResult
    /\ base = [target |-> target, current |-> current, result |-> NoResult]
    /\ change = NoChange
    /\ pc = "ready"
    /\ heap = [DEFAULT_CONFIG |-> DEFAULT_CONFIG, arguments |-> NoArguments]
    /\ NoNormalizeCall
    /\ NoAngleCall
    /\ NoGame

AnglesOnlyNext == Compare

AnglesOnlySpec == AnglesOnlyInit /\ [][AnglesOnlyNext]_vars

(***************************************************************************)
(* StatuesqueGame as a state machine.  An action is one event (a click, an *)
(* interval firing, a promise settling) together with the renders and the  *)
(* effects that follow it, until React has nothing left to do.             *)
(***************************************************************************)
poseCount == level + 1

GameInit == component \in Components /\ Mounted /\ NoCall /\ NoAngleCall /\ NoNormalizeCall

\* initPoses settles: the catalogue is loaded, or not.
InitPoses ==
    /\ isExtracting
    /\ availablePoses' \in Catalogues
    /\ isExtracting' = FALSE
    /\ UNCHANGED <<started, level, phase, poseIndex, selectedPoses, poseSequence,
                   matches, similarityResults, isWebcamReady>>
    /\ UNCHANGED <<comparisonResultRef, countdownInterval, levelInterval, played,
                   recorded>>
    /\ UNCHANGED <<callVars, angleVars, normalizeVars, component, webcamVars>>
    /\ UNCHANGED comparedFor
    /\ ComparisonEffect

\* initWebcam settles: the model is ready and the webcam has started.
InitWebcam ==
    /\ ~isWebcamReady
    /\ isWebcamReady' = TRUE
    /\ UNCHANGED <<started, level, phase, poseIndex, availablePoses, selectedPoses,
                   poseSequence, matches, similarityResults, isExtracting>>
    /\ UNCHANGED <<comparisonResultRef, countdownInterval, levelInterval, played,
                   recorded>>
    /\ UNCHANGED <<callVars, angleVars, normalizeVars, component, webcamVars>>
    /\ UNCHANGED comparedFor
    /\ ComparisonEffect

\* What the four pieces of state are after the click on START and the load
\* effect that follows it.
StartLoaded(draw) ==
    LoadPoses(TRUE, availablePoses, 1 + 1, draw,
              [poseSequence |-> <<>>,
               selectedPoses |-> selectedPoses,
               matches |-> Fill(poseCount, FALSE),
               similarityResults |-> similarityResults])

\* The click on START.
Start ==
    /\ component = "five levels"
    /\ ~started /\ phase = "idle"
    /\ ~isExtracting /\ isWebcamReady
    /\ started' = TRUE
    /\ level' = 1
    /\ poseIndex' = 0
    /\ phase' = "show"
    /\ \E draw \in Draws :
         /\ poseSequence' = StartLoaded(draw).poseSequence
         /\ selectedPoses' = StartLoaded(draw).selectedPoses
         /\ matches' = StartLoaded(draw).matches
         /\ similarityResults' = StartLoaded(draw).similarityResults
    /\ countdownInterval' = Countdown(TRUE, selectedPoses', 0)
    /\ levelInterval' = 0
    /\ played' = Shown(NothingPlayed, 1, selectedPoses', 0)
    /\ recorded' = 0
    /\ UNCHANGED <<availablePoses, isExtracting, isWebcamReady, comparisonResultRef>>
    /\ UNCHANGED <<callVars, angleVars, normalizeVars, component, webcamVars>>
    /\ comparedFor' = Earlier(comparedFor)
    /\ ComparisonEffect

\* The comparison interval fires during the webcam phase and there are
\* landmarks: the result of comparePoses goes into the ref.
CompareTick ==
    /\ timers # {}
    /\ phase = "webcam" /\ HasPose(selectedPoses, poseIndex)
    /\ comparisonResultRef' \in Similarities
    /\ comparedFor' = ThisCountdown
    /\ UNCHANGED <<reactVars, countdownInterval, levelInterval, played, recorded>>
    /\ UNCHANGED <<callVars, angleVars, normalizeVars, component, webcamVars>>
    /\ ComparisonEffect

\* The interval of startCountdown fires and time remains.
CountdownSecond ==
    /\ countdownInterval > 1
    /\ countdownInterval' = countdownInterval - 1
    /\ UNCHANGED <<reactVars, comparisonResultRef, levelInterval, played, recorded>>
    /\ UNCHANGED <<callVars, angleVars, normalizeVars, component, webcamVars>>
    /\ UNCHANGED comparedFor
    /\ ComparisonEffect

\* The countdown of a shown pose expires: the next pose is shown, or the
\* webcam phase starts at the first pose.
ShowCountdownDone ==
    /\ countdownInterval = 1 /\ phase = "show"
    /\ IF poseIndex < poseCount - 1
       THEN /\ poseIndex' = poseIndex + 1
            /\ played' = Shown(played, level, selectedPoses, poseIndex + 1)
            /\ UNCHANGED phase
       ELSE /\ poseIndex' = 0
            /\ phase' = "webcam"
            /\ UNCHANGED played
    /\ countdownInterval' = Countdown(started, selectedPoses, poseIndex')
    /\ UNCHANGED <<started, level, availablePoses, selectedPoses, poseSequence,
                   matches, similarityResults, isExtracting, isWebcamReady>>
    /\ UNCHANGED <<comparisonResultRef, levelInterval, recorded>>
    /\ UNCHANGED <<callVars, angleVars, normalizeVars, component, webcamVars>>
    /\ UNCHANGED comparedFor
    /\ ComparisonEffect

\* The similarity recorded for the pose whose webcam countdown expires.
similarity == SimilarityOf(comparisonResultRef)

IsMatch == Ge(similarity, MATCH_THRESHOLD)

\* similarityResults and matches with the pose recorded.
Recorded ==
    [poseSequence |-> poseSequence,
     selectedPoses |-> selectedPoses,
     matches |-> IF IsMatch THEN SetAt(matches, poseIndex, TRUE) ELSE matches,
     similarityResults |-> SetAt(similarityResults, poseIndex, similarity)]

\* The state after the level has gone up and the load effect has run.
NextLevelLoaded ==
    LoadPoses(started, availablePoses, (level + 1) + 1, <<>>, Recorded)

\* The webcam countdown of a pose expires: its similarity is recorded; then
\* the next pose follows, or the level is complete, or the game ends.
WebcamCountdownDone ==
    /\ countdownInterval = 1 /\ phase = "webcam"
    /\ recorded' = IF IsMatch THEN recorded + 1 ELSE recorded
    /\ IF poseIndex < poseCount - 1
       THEN /\ comparisonResultRef' = Null
            /\ comparedFor' = NoComparison
            /\ poseIndex' = poseIndex + 1
            /\ matches' = Recorded.matches
            /\ similarityResults' = Recorded.similarityResults
            /\ countdownInterval' = Countdown(started, selectedPoses, poseIndex + 1)
            /\ UNCHANGED <<phase, level, selectedPoses, poseSequence, levelInterval>>
       ELSE IF AfterLastPose(level) = "level-complete"
       THEN /\ phase' = "level-complete"
            /\ level' = level + 1
            /\ poseSequence' = NextLevelLoaded.poseSequence
            /\ selectedPoses' = NextLevelLoaded.selectedPoses
            /\ matches' = NextLevelLoaded.matches
            /\ similarityResults' = NextLevelLoaded.similarityResults
            /\ countdownInterval' = Countdown(started, selectedPoses', poseIndex)
            /\ levelInterval' = BETWEEN_LEVEL
            /\ UNCHANGED <<poseIndex, comparisonResultRef, comparedFor>>
       ELSE /\ phase' = AfterLastPose(level)
            /\ matches' = Recorded.matches
            /\ similarityResults' = Recorded.similarityResults
            /\ countdownInterval' = Countdown(started, selectedPoses, poseIndex)
            /\ UNCHANGED <<level, poseIndex, selectedPoses, poseSequence,
                           levelInterval, comparisonResultRef, comparedFor>>
    /\ UNCHANGED <<started, availablePoses, isExtracting, isWebcamReady, played>>
    /\ UNCHANGED <<callVars, angleVars, normalizeVars, component, webcamVars>>
    /\ ComparisonEffect

\* A countdown that was started in a phase other than show and webcam
\* expires: its callback does nothing.
OtherCountdownDone ==
    /\ countdownInterval = 1 /\ phase \notin {"show", "webcam"}
    /\ countdownInterval' = 0
    /\ UNCHANGED <<reactVars, comparisonResultRef, levelInterval, played, recorded>>
    /\ UNCHANGED <<callVars, angleVars, normalizeVars, component, webcamVars>>
    /\ UNCHANGED comparedFor
    /\ ComparisonEffect

\* The interval of the level-complete screen fires and time remains.
LevelSecond ==
    /\ levelInterval > 1
    /\ levelInterval' = levelInterval - 1
    /\ UNCHANGED <<reactVars, comparisonResultRef, countdownInterval, played, recorded>>
    /\ UNCHANGED <<callVars, angleVars, normalizeVars, component, webcamVars>>
    /\ UNCHANGED comparedFor
    /\ ComparisonEffect

\* The level-complete screen is over: the first pose of the level is shown.
LevelCountdownDone ==
    /\ levelInterval = 1 /\ phase = "level-complete"
    /\ levelInterval' = 0
    /\ poseIndex' = 0
    /\ phase' = "show"
    /\ countdownInterval' = Countdown(started, selectedPoses, 0)
    /\ played' = Shown(played, level, selectedPoses, 0)
    /\ UNCHANGED <<started, level, availablePoses, selectedPoses, poseSequence,
                   matches, similarityResults, isExtracting, isWebcamReady>>
    /\ UNCHANGED <<comparisonResultRef, recorded>>
    /\ UNCHANGED <<callVars, angleVars, normalizeVars, component, webcamVars>>
    /\ UNCHANGED comparedFor
    /\ ComparisonEffect

\* The click on Restart, on the ending screen.
Restart ==
    /\ phase = "ending"
    /\ started' = FALSE
    /\ phase' = "idle"
    /\ level' = 1
    /\ poseIndex' = 0
    /\ poseSequence' = <<>>
    /\ matches' = <<>>
    /\ selectedPoses' = <<>>
    /\ similarityResults' = <<>>
    /\ countdownInterval' = Countdown(FALSE, <<>>, 0)
    /\ UNCHANGED <<availablePoses, isExtracting, isWebcamReady>>
    /\ UNCHANGED <<comparisonResultRef, levelInterval, played, recorded>>
    /\ UNCHANGED <<callVars, angleVars, normalizeVars, component, webcamVars>>
    /\ UNCHANGED comparedFor
    /\ ComparisonEffect

(***************************************************************************)
(* The second component, level by level: one action for the click on       *)
(* START, one for a level played to its end without a failed pose (the     *)
(* webcam countdown of its last pose, the level-complete screen and the    *)
(* load effect of the next level), one for a level in which a pose failed, *)
(* one for the click that resets the game.  The show and webcam phases of  *)
(* a level are not followed pose by pose.                                  *)
(***************************************************************************)
EndlessStartLoaded(seed) ==
    EndlessLoadPoses(TRUE, availablePoses, 1, seed,
                     [poseSequence |-> <<>>,
                      selectedPoses |-> selectedPoses,
                      matches |-> matches,
                      similarityResults |-> similarityResults])

EndlessStart ==
    /\ component = "endless"
    /\ ~started /\ phase = "idle"
    /\ ~isExtracting /\ isWebcamReady
    /\ started' = TRUE
    /\ level' = 1
    /\ poseIndex' = 0
    /\ phase' = "show"
    /\ \E seed \in Seeds :
         /\ poseSequence' = EndlessStartLoaded(seed).poseSequence
         /\ selectedPoses' = EndlessStartLoaded(seed).selectedPoses
         /\ similarityResults' = EndlessStartLoaded(seed).similarityResults
    /\ played' = [EndlessNothingPlayed EXCEPT ![1] = selectedPoses']
    /\ recorded' = 0
    /\ UNCHANGED <<availablePoses, matches, isExtracting, isWebcamReady>>
    /\ UNCHANGED <<comparisonResultRef, countdownInterval, levelInterval>>
    /\ UNCHANGED <<callVars, angleVars, normalizeVars, component, webcamVars>>
    /\ UNCHANGED comparedFor
    /\ ComparisonEffect

EndlessNextLoaded(seed) ==
    EndlessLoadPoses(started, availablePoses, level + 1, seed,
                     [poseSequence |-> poseSequence,
                      selectedPoses |-> selectedPoses,
                      matches |-> matches,
                      similarityResults |-> similarityResults])

EndlessLevelPassed ==
    /\ component = "endless"
    /\ started /\ phase = "show" /\ HasPose(selectedPoses, 0)
    /\ level < MaxLevel
    /\ level' = level + 1
    /\ poseIndex' = 0
    /\ \E seed \in Seeds :
         /\ poseSequence' = EndlessNextLoaded(seed).poseSequence
         /\ selectedPoses' = EndlessNextLoaded(seed).selectedPoses
         /\ similarityResults' = EndlessNextLoaded(seed).similarityResults
    /\ played' = [played EXCEPT ![level + 1] = selectedPoses']
    /\ UNCHANGED <<started, phase, availablePoses, matches, isExtracting, isWebcamReady>>
    /\ UNCHANGED <<comparisonResultRef, countdownInterval, levelInterval, recorded>>
    /\ UNCHANGED <<callVars, angleVars, normalizeVars, component, webcamVars>>
    /\ UNCHANGED comparedFor
    /\ ComparisonEffect

EndlessLevelFailed ==
    /\ component = "endless"
    /\ started /\ phase = "show" /\ HasPose(selectedPoses, 0)
    /\ phase' = "gameover"
    /\ poseIndex' = level - 1
    /\ UNCHANGED <<started, level, availablePoses, selectedPoses, poseSequence,
                   matches, similarityResults, isExtracting, isWebcamReady>>
    /\ UNCHANGED <<comparisonResultRef, countdownInterval, levelInterval, played,
                   recorded>>
    /\ UNCHANGED <<callVars, angleVars, normalizeVars, component, webcamVars>>
    /\ UNCHANGED comparedFor
    /\ ComparisonEffect

EndlessPlayAgain ==
    /\ component = "endless"
    /\ phase = "gameover"
    /\ started' = FALSE
    /\ phase' = "idle"
    /\ level' = 1
    /\ poseIndex' = 0
    /\ poseSequence' = <<>>
    /\ selectedPoses' = <<>>
    /\ similarityResults' = <<>>
    /\ UNCHANGED <<availablePoses, matches, isExtracting, isWebcamReady>>
    /\ UNCHANGED <<comparisonResultRef, countdownInterval, levelInterval, played,
                   recorded>>
    /\ UNCHANGED <<callVars, angleVars, normalizeVars, component, webcamVars>>
    /\ UNCHANGED comparedFor
    /\ ComparisonEffect

GameNext ==
    \/ InitPoses
    \/ InitWebcam
    \/ Start
    \/ CompareTick
    \/ CountdownSecond
    \/ ShowCountdownDone
    \/ WebcamCountdownDone
    \/ OtherCountdownDone
    \/ LevelSecond
    \/ LevelCountdownDone
    \/ Restart
    \/ EndlessStart
    \/ EndlessLevelPassed
    \/ EndlessLevelFailed
    \/ EndlessPlayAgain

GameSpec == GameInit /\ [][GameNext]_vars

\* The interval of startCountdown fires.
CountdownFires ==
    CountdownSecond \/ ShowCountdownDone \/ WebcamCountdownDone \/ OtherCountdownDone

\* The interval of the level-complete screen fires.
LevelFires == LevelSecond \/ LevelCountdownDone

\* The game with intervals that keep firing: setInterval calls its callback
\* every second until it is cleared.
GameLiveSpec == GameSpec /\ WF_vars(CountdownFires) /\ WF_vars(LevelFires)

(***************************************************************************)
(* WebcamCapture: start(), stop() and predictWebcam, one action for each   *)
(* stretch of code between two awaits, and the comparison callback of the  *)
(* pages that poll getCurrentLandmarks().                                  *)
(***************************************************************************)
\* initModel settles with the model loaded.
InitModel ==
    /\ ~poseLandmarkerRef
    /\ poseLandmarkerRef' = TRUE
    /\ UNCHANGED <<srcObject, liveTracks, webcamRunningRef, rafRef, frames, listening,
                   loadPending, starts, settingOptions, runningModeRef,
                   currentLandmarksRef, lastCalled, polled>>
    /\ UNCHANGED <<callVars, angleVars, normalizeVars, pageVars>>

\* start() up to its first await: it returns when the model is not loaded,
\* and asks for the camera otherwise.
CallStart ==
    /\ \E i \in 1..MaxStarts :
         /\ starts[i] = "idle"
         /\ \A j \in 1..(i - 1) : starts[j] # "idle"
         /\ starts' = [starts EXCEPT ![i] = IF poseLandmarkerRef THEN "getUserMedia"
                                           ELSE "returned"]
    /\ lastCalled' = "start"
    /\ UNCHANGED <<poseLandmarkerRef, srcObject, liveTracks, webcamRunningRef, rafRef,
                   frames, listening, loadPending, settingOptions, runningModeRef,
                   currentLandmarksRef, polled>>
    /\ UNCHANGED <<callVars, angleVars, normalizeVars, pageVars>>

\* getUserMedia resolves with a new stream: start() attaches it, sets the
\* running flag, listens for loadeddata and calls play().
CameraGranted ==
    /\ \E i \in 1..MaxStarts :
         /\ starts[i] = "getUserMedia"
         /\ starts' = [starts EXCEPT ![i] = "play"]
         /\ liveTracks' = liveTracks \cup {i}
         /\ srcObject' = i
    /\ webcamRunningRef' = TRUE
    /\ listening' = TRUE
    /\ loadPending' = TRUE
    /\ UNCHANGED <<poseLandmarkerRef, rafRef, frames, settingOptions, runningModeRef,
                   currentLandmarksRef, lastCalled, polled>>
    /\ UNCHANGED <<callVars, angleVars, normalizeVars, pageVars>>

\* getUserMedia rejects: start() logs and throws.
CameraDenied ==
    /\ \E i \in 1..MaxStarts :
         /\ starts[i] = "getUserMedia"
         /\ starts' = [starts EXCEPT ![i] = "returned"]
    /\ UNCHANGED <<poseLandmarkerRef, srcObject, liveTracks, webcamRunningRef, rafRef,
                   frames, listening, loadPending, settingOptions, runningModeRef,
                   currentLandmarksRef, lastCalled, polled>>
    /\ UNCHANGED <<callVars, angleVars, normalizeVars, pageVars>>

\* play() settles: start() returns or throws.
PlaySettled ==
    /\ \E i \in 1..MaxStarts :
         /\ starts[i] = "play"
         /\ starts' = [starts EXCEPT ![i] = "returned"]
    /\ UNCHANGED <<poseLandmarkerRef, srcObject, liveTracks, webcamRunningRef, rafRef,
                   frames, listening, loadPending, settingOptions, runningModeRef,
                   currentLandmarksRef, lastCalled, polled>>
    /\ UNCHANGED <<callVars, angleVars, normalizeVars, pageVars>>

\* predictWebcam from the time stamp on: when the video has a new frame,
\* detectForVideo hands a result to the callback, which stores the landmarks
\* extracted; then the next frame is requested while the running flag is set.
\* pending are the frames requested before.  With no stream attached no
\* result is handed over.
Detect(pending) ==
    /\ \E newFrame \in BOOLEAN :
         IF newFrame /\ srcObject # 0
         THEN \E mediapipeResult \in Detections :
                currentLandmarksRef' = Extracted(mediapipeResult, 0)
         ELSE UNCHANGED currentLandmarksRef
    /\ IF webcamRunningRef
       THEN /\ rafRef' = NewFrame(pending, rafRef)
            /\ frames' = pending \cup {rafRef'}
       ELSE /\ frames' = pending
            /\ UNCHANGED rafRef

\* predictWebcam from its first line: in IMAGE mode it switches the mode and
\* awaits setOptions.
Predict(pending) ==
    IF runningModeRef = "IMAGE"
    THEN /\ runningModeRef' = "VIDEO"
         /\ settingOptions' = settingOptions + 1
         /\ frames' = pending
         /\ UNCHANGED <<currentLandmarksRef, rafRef>>
    ELSE /\ Detect(pending)
         /\ UNCHANGED <<runningModeRef, settingOptions>>

\* The video element fires loadeddata for the stream attached.
LoadedData ==
    /\ loadPending /\ listening
    /\ loadPending' = FALSE
    /\ Predict(frames)
    /\ UNCHANGED <<poseLandmarkerRef, srcObject, liveTracks, webcamRunningRef, listening,
                   starts, lastCalled, polled>>
    /\ UNCHANGED <<callVars, angleVars, normalizeVars, pageVars>>

\* setOptions settles: predictWebcam goes on.
SetOptionsSettled ==
    /\ settingOptions > 0
    /\ settingOptions' = settingOptions - 1
    /\ Detect(frames)
    /\ UNCHANGED <<poseLandmarkerRef, srcObject, liveTracks, webcamRunningRef, listening,
                   loadPending, starts, runningModeRef, lastCalled, polled>>
    /\ UNCHANGED <<callVars, angleVars, normalizeVars, pageVars>>

\* An animation frame that was requested and not cancelled calls
\* predictWebcam.
AnimationFrame ==
    /\ \E id \in frames : Predict(frames \ {id})
    /\ UNCHANGED <<poseLandmarkerRef, srcObject, liveTracks, webcamRunningRef, listening,
                   loadPending, starts, lastCalled, polled>>
    /\ UNCHANGED <<callVars, angleVars, normalizeVars, pageVars>>

\* stop(), which has no await.
CallStop ==
    /\ webcamRunningRef' = FALSE
    /\ frames' = IF rafRef # 0 THEN frames \ {rafRef} ELSE frames
    /\ rafRef' = 0
    /\ liveTracks' = liveTracks \ {srcObject}
    /\ srcObject' = 0
    /\ listening' = FALSE
    /\ loadPending' = FALSE
    /\ currentLandmarksRef' = <<>>
    /\ lastCalled' = "stop"
    /\ UNCHANGED <<poseLandmarkerRef, starts, settingOptions, runningModeRef, polled>>
    /\ UNCHANGED <<callVars, angleVars, normalizeVars, pageVars>>

\* The 100 ms callback of StatuesqueGame and of TestPage.
Poll ==
    /\ polled' = Polled(currentLandmarksRef)
    /\ UNCHANGED <<poseLandmarkerRef, srcObject, liveTracks, webcamRunningRef, rafRef,
                   frames, listening, loadPending, starts, settingOptions,
                   runningModeRef, currentLandmarksRef, lastCalled>>
    /\ UNCHANGED <<callVars, angleVars, normalizeVars, pageVars>>

WebcamInit == NoCall /\ NoAngleCall /\ NoNormalizeCall /\ NoGame

WebcamNext ==
    \/ InitModel
    \/ CallStart
    \/ CameraGranted
    \/ CameraDenied
    \/ PlaySettled
    \/ LoadedData
    \/ SetOptionsSettled
    \/ AnimationFrame
    \/ CallStop
    \/ Poll

WebcamSpec == WebcamInit /\ [][WebcamNext]_vars

FiveLevels == component = "five levels"

\* The poses of level n of the game at hand have been shown.
LevelShown(n) ==
    /\ started
    /\ IF FiveLevels THEN level > n \/ (level = n /\ phase \in {"webcam", "ending"})
       ELSE level >= n

(***************************************************************************)
(* What the claims speak of.                                               *)
(***************************************************************************)
\* comparePoses has been called on the arguments at hand.
Called == pc \in {"compared", "done"}

finalConfig == MergeConfig(config)

\* Both arrays hold landmarks.
NonEmpty == target.length > 0 /\ current.length > 0

\* Some joint of the pose passes the visibility filter.
SomeVisible(pose) == \E idx \in 0..(pose.length - 1) : JointVisible(pose, idx)

\* The joint passes the filter in both poses.
BothVisible(idx) == JointVisible(target, idx) /\ JointVisible(current, idx)

NoCommonJoint == \A idx \in 0..(PoseLength - 1) : ~BothVisible(idx)

NoCommonTriple ==
    \A k \in 1..Len(jointTriples) : \E n \in 1..3 : ~BothVisible(jointTriples[k][n])

\* The degenerate result: nothing compared, no match.
IsDegenerate(r) ==
    /\ r.outcome = "returned"
    /\ r.similarity = Zero
    /\ ~r.isMatching
    /\ r.landmarksCompared = 0
    /\ r.validLandmarks = 0
    /\ r.comparedRegions = <<>>

\* Two numbers equal up to 2^-ToleranceBits, far above the rounding of the
\* arithmetic.
ToleranceBits == 6

Close(a, b) ==
    /\ Le(Sub(a, b), Round(1, -ToleranceBits))
    /\ Le(Sub(b, a), Round(1, -ToleranceBits))

\* The second call has returned, after the given change of the inputs.
After(kind) ==
    /\ pc = "done" /\ change = kind
    /\ result.outcome = "returned" /\ base.result.outcome = "returned"

\* The length the scale of the live pose is taken from is at least 0.01.
ScaleAboveFloor(pose) ==
    /\ SomeVisible(pose)
    /\ Ge(ReferenceLength(Landmarks(pose),
                          filterVisibleLandmarks(Landmarks(pose), finalConfig)),
          MinLength)

\* normalizePose has returned a pose.
Normalized == pc = "normalized" /\ ~normalized.threw

\* The joint of the array passed exists and its visibility (1 when absent) is
\* above 0.3.
Above03(idx) ==
    /\ idx < target.length
    /\ Gt(OrElse(Visibility(target.pattern, idx), One), Ratio(3, 10))

HipsAbove03 == Above03(LEFT_HIP) /\ Above03(RIGHT_HIP)

ShouldersAbove03 == Above03(LEFT_SHOULDER) /\ Above03(RIGHT_SHOULDER)

\* The joint idx as normalizePose translates and scales it.
Joint(idx) == At(landmarksToNormalize, idx)

\* The joints that passed the visibility filter, in the order of the array.
FilteredJoints ==
    SelectSeq([i \in 1..target.length |-> i - 1], LAMBDA idx : JointVisible(target, idx))

SameXY(p, q) == p.x = q.x /\ p.y = q.y

\* The middle of two points of the image.
Middle(p, q) ==
    [x |-> Div(Add(p.x, q.x), Num(2)), y |-> Div(Add(p.y, q.y), Num(2))]

\* The arithmetic mean of the joints that passed the visibility filter.
MeanJoint ==
    [x |-> Mean([i \in 1..Len(FilteredJoints) |-> Joint(FilteredJoints[i]).x]),
     y |-> Mean([i \in 1..Len(FilteredJoints) |-> Joint(FilteredJoints[i]).y])]

\* The joints that passed the visibility filter.
FilteredLandmarks == Array([i \in 1..Len(FilteredJoints) |-> Joint(FilteredJoints[i])])

\* The distances between two of the joints.
DistancesBetween(joints) ==
    {distance(joints[q[1]], joints[q[2]]) :
       q \in {r \in (1..Len(joints)) \X (1..Len(joints)) : r[1] < r[2]}}

\* The largest of the distances; 0 when there is none.
LargestOf(distances) ==
    CHOOSE d \in distances \cup {Zero} : \A e \in distances : Le(e, d)

MaxPairwiseDistance == LargestOf(DistancesBetween(FilteredLandmarks))

\* The length the claim's rule measures in the pose.
RuleLength ==
    IF ShouldersAbove03 /\ HipsAbove03
    THEN distance(midpoint(Joint(LEFT_SHOULDER), Joint(RIGHT_SHOULDER)),
                  midpoint(Joint(LEFT_HIP), Joint(RIGHT_HIP)))
    ELSE IF ShouldersAbove03 THEN distance(Joint(LEFT_SHOULDER), Joint(RIGHT_SHOULDER))
    ELSE MaxPairwiseDistance

\* The joint of the array passed, before normalizePose.
Original(idx) == At(targetLandmarks, idx)

\* The predefined limbs that end at the joint and lie within the array.
LimbsAt(idx) ==
    {k \in 1..Len(limbs) :
       /\ idx \in {limbs[k][1], limbs[k][2]}
       /\ limbs[k][1] < target.length /\ limbs[k][2] < target.length}

\* The length of the limb in the array passed, floored at 0.01.
FlooredLength(k) ==
    Max(distance(Original(limbs[k][1]), Original(limbs[k][2])), Ratio(1, 100))

\* The joint divided by a length.
Divided(lm, length) ==
    [x |-> Div(lm.x, length),
     y |-> Div(lm.y, length),
     z |-> IF lm.z = Undefined THEN Undefined ELSE Div(lm.z, length),
     visibility |-> lm.visibility]

\* normalizePose has returned with perLimbNormalization = true.
NormalizedByLimbs == Normalized /\ finalConfig.perLimbNormalization

\* The joint indices that pass the visibility filter in both poses, in
\* increasing order.
CommonJoints ==
    SelectSeq([i \in 1..PoseLength |-> i - 1], LAMBDA idx : BothVisible(idx))

\* The distances, joint by joint, between two normalized poses.
JointDistances(joints, targetPose, currentPose) ==
    [i \in 1..Len(joints) |->
       distance(At(targetPose.landmarks, joints[i]), At(currentPose.landmarks, joints[i]))]

\* The mean of the Euclidean distances between the normalized joints of the
\* reference and of the live pose, over the joints given.
MeanJointDistance(joints) ==
    Mean(JointDistances(joints, normalizePose(targetLandmarks, finalConfig),
                        normalizePose(currentLandmarks, finalConfig)))

\* A call in standard mode has returned.
StandardCalled == Called /\ result.outcome = "returned" /\ ~finalConfig.angleOnly

\* computeAngleFeatures has returned.
Featured == pc = "featured"

\* The triples whose three joints pass the visibility filter in both poses,
\* in the order of the six fixed triples.
ComparableTriples ==
    SelectSeq([k \in 1..6 |-> k],
              LAMBDA k : \A n \in 1..3 : BothVisible(jointTriples[k][n]))

\* The angle at the middle joint of the triple in a normalized pose.
MiddleAngle(pose, k) ==
    computeAngle(At(pose.landmarks, jointTriples[k][1]),
                 At(pose.landmarks, jointTriples[k][2]),
                 At(pose.landmarks, jointTriples[k][3]))

AbsoluteDifference(a, b) == IF Ge(a, b) THEN Sub(a, b) ELSE Sub(b, a)

\* min(d, 180 - d) / 180
FoldedOver180(d) ==
    IF Le(d, Sub(Num(180), d)) THEN Div(d, Num(180)) ELSE Div(Sub(Num(180), d), Num(180))

\* The value the claim gives a triple.
TripleValue(targetPose, currentPose, k) ==
    FoldedOver180(AbsoluteDifference(MiddleAngle(targetPose, k), MiddleAngle(currentPose, k)))

\* The values the claim gives the comparable triples of two normalized poses.
TripleValues(targetPose, currentPose) ==
    [i \in 1..Len(ComparableTriples) |->
       TripleValue(targetPose, currentPose, ComparableTriples[i])]

\* A call in standard mode has returned and some joint is common.
StandardCompared == StandardCalled /\ Len(CommonJoints) > 0

\* max(0, 1 - meanDistance)
DistanceSimilarity ==
    IF Ge(Sub(One, result.meanDistance), Zero) THEN Sub(One, result.meanDistance) ELSE Zero

\* The mean of the normalized angle differences of the comparable triples.
MeanAngleDifference ==
    Mean(TripleValues(normalizePose(targetLandmarks, finalConfig),
                      normalizePose(currentLandmarks, finalConfig)))

\* similarity * (1 - angleWeight) + (1 - meanAngleDiff) * angleWeight
Blended(fromDistance, meanAngleDiff, angleWeight) ==
    Add(Mul(fromDistance, Sub(One, angleWeight)), Mul(Sub(One, meanAngleDiff), angleWeight))

\* A number clamped to [0, 1].
Clamped01(v) == IF Lt(v, Zero) THEN Zero ELSE IF Gt(v, One) THEN One ELSE v

\* The result of the same call with useAngles = false.
WithoutAngles ==
    CompareWith(targetLandmarks, currentLandmarks, WithOption(finalConfig, "useAngles", FALSE))

\* A call in angle-only mode has returned and some triple is comparable.
AnglesOnlyCompared ==
    /\ Called /\ result.outcome = "returned" /\ finalConfig.angleOnly
    /\ Len(ComparableTriples) > 0

\* The values a caller gives angleWeight.
AngleWeights == {Zero, Ratio(3, 10), One, Num(2), Num(-1)}

\* The result of the same call with other values of useAngles and angleWeight.
WithAngleOptions(useAngles, angleWeight) ==
    CompareWith(targetLandmarks, currentLandmarks,
                WithOption(WithOption(finalConfig, "useAngles", useAngles),
                           "angleWeight", angleWeight))

BodyRegions == {"upper", "lower", "left_arm", "right_arm"}

\* The pose has the region, by the claim's rule.
HasRegion(pose, region) ==
    CASE region = "upper" ->
           JointVisible(pose, LEFT_SHOULDER) \/ JointVisible(pose, RIGHT_SHOULDER)
      [] region = "lower" -> JointVisible(pose, LEFT_HIP) \/ JointVisible(pose, RIGHT_HIP)
      [] region = "left_arm" ->
           /\ JointVisible(pose, LEFT_SHOULDER)
           /\ (JointVisible(pose, LEFT_ELBOW) \/ JointVisible(pose, LEFT_WRIST))
      [] OTHER ->
           /\ JointVisible(pose, RIGHT_SHOULDER)
           /\ (JointVisible(pose, RIGHT_ELBOW) \/ JointVisible(pose, RIGHT_WRIST))

\* The elements of an array, as a set.
Elements(arr) == {arr[i] : i \in 1..Len(arr)}

\* A result that is not the degenerate one has been returned.
NonDegenerate == Called /\ result.outcome = "returned" /\ ~IsDegenerate(result)

\* The number of joints of the pose that pass the visibility filter.
VisibleCount(pose) == Cardinality({idx \in 0..(PoseLength - 1) : JointVisible(pose, idx)})

CommonCount == Cardinality({idx \in 0..(PoseLength - 1) : BothVisible(idx)})

(***************************************************************************)
(* The claims.                                                             *)
(***************************************************************************)
\* C1: comparePoses throws if and only if the reference or the live array is
\* empty; for non-empty arrays it returns a result, whatever the
\* configuration and the visibilities.
C1_ThrowsIffEmpty ==
    Called => /\ result.outcome \in {"threw", "returned"}
              /\ (result.outcome = "threw") <=> ~NonEmpty

C1_Witness ==
    /\ Called /\ target.length > 0 /\ current.length = 0
    /\ result = InvalidInput

\* C2: when the reference or the live pose has no joint that passes the
\* visibility filter, comparePoses returns the degenerate result, in standard
\* mode and in angle-only mode.
C2_OccludedIsDegenerate ==
    (Called /\ NonEmpty /\ (~SomeVisible(target) \/ ~SomeVisible(current)))
        => IsDegenerate(result)

C2_Witness ==
    /\ Called /\ NonEmpty /\ finalConfig.angleOnly
    /\ SomeVisible(target) /\ ~SomeVisible(current)
    /\ IsDegenerate(result)

\* C3: when both poses have visible joints but share none for the selected
\* features (no joint visible in both in standard mode, no triple visible in
\* both in angle-only mode), comparePoses returns the degenerate result.
C3_NothingSharedIsDegenerate ==
    (/\ Called /\ SomeVisible(target) /\ SomeVisible(current)
     /\ IF finalConfig.angleOnly THEN NoCommonTriple ELSE NoCommonJoint)
        => IsDegenerate(result)

C3_Witness ==
    /\ Called /\ ~finalConfig.angleOnly
    /\ SomeVisible(target) /\ SomeVisible(current) /\ NoCommonJoint
    /\ IsDegenerate(result)

C5_VerdictFromReturnedSimilarity ==
    (Called /\ result.outcome = "returned")
        => (result.isMatching
              <=> Ge(result.similarity, finalConfig.similarityThreshold))

\* C5, amended: for a similarityThreshold in (0, 1], isMatching holds exactly
\* when the returned similarity is >= similarityThreshold.
C5_VerdictForThresholdInRange ==
    (/\ Called /\ result.outcome = "returned"
     /\ Gt(finalConfig.similarityThreshold, Zero)
     /\ Le(finalConfig.similarityThreshold, One))
        => (result.isMatching
              <=> Ge(result.similarity, finalConfig.similarityThreshold))

C5_Witness ==
    /\ Called /\ result.outcome = "returned"
    /\ finalConfig.similarityThreshold = One
    /\ result.isMatching /\ result.similarity = One

\* C6, as stated: for every non-empty pose, comparing it with a copy of
\* itself under the default configuration gives similarity 1 and a match.
C6_IdentityOfEveryPose ==
    (Called /\ NonEmpty /\ target = current /\ finalConfig = DEFAULT_CONFIG)
        => /\ result.outcome = "returned"
           /\ result.similarity = One
           /\ result.isMatching

\* C6, amended: for every pose with at least one joint that passes the
\* visibility filter, comparing it with a copy of itself under the default
\* configuration gives similarity 1 and a match.
C6_IdentityOfVisiblePose ==
    (/\ Called /\ target = current /\ finalConfig = DEFAULT_CONFIG
     /\ SomeVisible(target))
        => /\ result.outcome = "returned"
           /\ result.similarity = One
           /\ result.isMatching

C6_Witness ==
    /\ Called /\ target = current /\ finalConfig = DEFAULT_CONFIG
    /\ SomeVisible(target) /\ ~JointVisible(target, LEFT_HIP)
    /\ result.outcome = "returned" /\ result.similarity = One /\ result.isMatching

\* C7: translating every joint of the live pose by a constant vector leaves
\* the similarity unchanged, in every configuration.
C7_TranslationInvariance ==
    After("translate") => Close(result.similarity, base.result.similarity)

C9_HiddenJointIsIgnored ==
    After("move") => /\ Close(result.meanDistance, base.result.meanDistance)
                     /\ result.validLandmarks = base.result.validLandmarks

\* C10: in every result that carries regionDistances, every key of
\* regionDistances is an element of comparedRegions.
C10_RegionKeysAreCompared ==
    (Called /\ result.outcome = "returned" /\ result.hasRegionDistances)
        => \A region \in DOMAIN result.regionDistances :
               Includes(result.comparedRegions, region)

C10_Witness ==
    /\ Called /\ result.outcome = "returned" /\ result.hasRegionDistances
    /\ DOMAIN result.regionDistances /= {}
    /\ ~Includes(result.comparedRegions, "lower")
    /\ BothVisible(LEFT_KNEE)

C14_EachLevelAddsOnePose ==
    \A n \in 1..(MaxLevel - 1) :
        (LevelShown(n + 1) /\ n + 1 \in DOMAIN played)
            => /\ Len(played[n + 1]) = Len(played[n]) + 1
               /\ SubSeq(played[n + 1], 1, Len(played[n])) = played[n]

\* In the second component, a level beyond the first sequence of 16 ids.
C14_WitnessExtended ==
    /\ ~FiveLevels /\ LevelShown(MaxLevel)
    /\ Len(played[MaxLevel]) = MaxLevel
    /\ played[MaxLevel][1] /= played[MaxLevel][2]

C14_Witness ==
    /\ FiveLevels
    /\ LevelShown(TOTAL_LEVELS)
    /\ Len(played[1]) = 2
    /\ played[TOTAL_LEVELS][1] /= played[TOTAL_LEVELS][2]
    /\ played[TOTAL_LEVELS][1] = played[TOTAL_LEVELS][TOTAL_LEVELS + 1]

\* C15: a game started with a pose available, whose intervals keep firing,
\* goes through the levels 1, 2, 3, 4, 5 in this order and then enters the
\* phase ending; ending is entered only when the webcam countdown of the last
\* pose of level 5 expires; level stays within 1..5.
C15_FiveLevelsThenEnding ==
    /\ [](FiveLevels => level \in 1..TOTAL_LEVELS)
    /\ [][(FiveLevels /\ level' /= level)
            => (level' = level + 1 \/ (phase = "ending" /\ level' = 1))]_vars
    /\ [][(FiveLevels /\ phase' = "ending" /\ phase /= "ending")
            => /\ phase = "webcam" /\ level = TOTAL_LEVELS
               /\ poseIndex = poseCount - 1 /\ countdownInterval = 1]_vars
    /\ [][(started' /\ ~started) => level' = 1]_vars
    /\ \A n \in 1..(TOTAL_LEVELS - 1) :
           (FiveLevels /\ started /\ Len(availablePoses) > 0 /\ level = n)
               ~> (level = n + 1)
    /\ (FiveLevels /\ started /\ Len(availablePoses) > 0) ~> (phase = "ending")

C15_Witness ==
    /\ FiveLevels
    /\ started /\ phase = "ending" /\ level = TOTAL_LEVELS
    /\ \A n \in 1..TOTAL_LEVELS : Len(played[n]) = n + 1

\* C16: when the phase ending is reached, the matched count of the displayed
\* accuracy is the number of poses of all five levels whose recorded
\* similarity reached MATCH_THRESHOLD.
C16_MatchedCountCoversTheGame ==
    (FiveLevels /\ phase = "ending") => MatchedCount(matches) = recorded


\* C17: normalizePose takes its origin from the first rule that applies: the
\* midpoint of the hips if both have a visibility > 0.3; else the midpoint of
\* the shoulders if both have a visibility > 0.3; else the nose if its
\* visibility is > 0.3; else the mean of the joints that passed the
\* visibility filter.
C17_OriginChain ==
    Normalized =>
        SameXY(normalized.origin,
               IF HipsAbove03 THEN Middle(Joint(LEFT_HIP), Joint(RIGHT_HIP))
               ELSE IF ShouldersAbove03
               THEN Middle(Joint(LEFT_SHOULDER), Joint(RIGHT_SHOULDER))
               ELSE IF Above03(NOSE) THEN Joint(NOSE)
               ELSE MeanJoint)

\* Each of the four rules is the one that applies to some pose; the hips
\* give the origin also when they are below the visibility threshold.
C17_Witness ==
    /\ Normalized /\ ~HipsAbove03 /\ ~ShouldersAbove03 /\ ~Above03(NOSE)
    /\ Len(FilteredJoints) > 1
    /\ SameXY(normalized.origin, MeanJoint)


\* C18: normalizePose takes its scale from the first rule that applies: the
\* distance between the shoulder midpoint and the hip midpoint if the four
\* joints have a visibility > 0.3; else the distance between the shoulders if
\* both have a visibility > 0.3; else the largest distance between two joints
\* that passed the visibility filter; and the scale is never below 0.01.
C18_ScaleChain ==
    Normalized =>
        /\ normalized.scale = (IF Ge(RuleLength, Ratio(1, 100)) THEN RuleLength
                               ELSE Ratio(1, 100))
        /\ Ge(normalized.scale, Ratio(1, 100))

\* A torso shorter than 0.01 in the image: the scale is the floor.
C18_Witness ==
    /\ Normalized /\ ShouldersAbove03 /\ HipsAbove03
    /\ Lt(RuleLength, Ratio(1, 100)) /\ Gt(RuleLength, Zero)
    /\ normalized.scale = Ratio(1, 100)


\* C19: with perLimbNormalization = true, every joint that is an endpoint of
\* one of the ten predefined limbs is divided by the length, floored at 0.01,
\* of a limb it is an endpoint of, and every other joint is left as it was.
C19_EveryLimbJointIsDivided ==
    NormalizedByLimbs =>
        \A idx \in 0..(target.length - 1) :
            IF \E k \in 1..Len(limbs) : idx \in {limbs[k][1], limbs[k][2]}
            THEN LimbsAt(idx) /= {}
                   => \E k \in LimbsAt(idx) : Joint(idx) = Divided(Original(idx), FlooredLength(k))
            ELSE Joint(idx) = Original(idx)


\* C20: in standard mode with at least one common joint, validLandmarks is
\* the number of joint indices whose visibility (1 when absent) is >=
\* visibilityThreshold in both poses, and meanDistance is the mean over those
\* indices of the Euclidean distance between the two normalized joints.
C20_CommonJointsAreCompared ==
    (StandardCalled /\ Len(CommonJoints) > 0)
        => /\ result.validLandmarks = Cardinality({idx \in 0..(PoseLength - 1) : BothVisible(idx)})
           /\ result.meanDistance = MeanJointDistance(CommonJoints)

\* A reference with every joint seen and a live pose without visibilities,
\* in another posture: all joints are compared and the mean is not 0.
C20_Witness ==
    /\ StandardCalled
    /\ target.pattern = "full" /\ current.pattern = "unset"
    /\ result.validLandmarks = PoseLength
    /\ Gt(result.meanDistance, Zero)


\* C21: computeAngleFeatures emits one value for each of the six triples whose
\* three joints pass the visibility filter in both poses and none for another
\* triple; each value is min(d, 180 - d) / 180, d the absolute difference of
\* the angles at the middle joint in the two poses, and lies in [0, 1].
C21_OneValuePerComparableTriple ==
    Featured =>
        /\ features.validCount = Len(ComparableTriples)
        /\ features.angles = TripleValues(normalizePose(targetLandmarks, finalConfig),
                                          normalizePose(currentLandmarks, finalConfig))
        /\ \A i \in 1..Len(features.angles) :
              Ge(features.angles[i], Zero) /\ Le(features.angles[i], One)

\* Some triples are comparable and some are not, and an angle difference
\* above 90 degrees is folded.
C21_Witness ==
    /\ Featured
    /\ Len(ComparableTriples) \in 1..5
    /\ \E i \in 1..Len(ComparableTriples) :
          /\ Gt(AbsoluteDifference(
                   MiddleAngle(normalizePose(targetLandmarks, finalConfig), ComparableTriples[i]),
                   MiddleAngle(normalizePose(currentLandmarks, finalConfig), ComparableTriples[i])),
                Num(90))
          /\ Lt(features.angles[i], Ratio(1, 2))


\* C22: in standard mode with a common joint, the similarity is
\* max(0, 1 - meanDistance) when useAngles is false or no triple is comparable
\* (the result is then the one of useAngles = false), and it is
\* max(0, 1 - meanDistance) * (1 - angleWeight) + (1 - meanAngleDiff) *
\* angleWeight, clamped to [0, 1], when useAngles is true and some triple is
\* comparable.
C22_SimilarityBlend ==
    StandardCompared =>
        IF finalConfig.useAngles /\ Len(ComparableTriples) > 0
        THEN result.similarity
               = Clamped01(Blended(DistanceSimilarity, MeanAngleDifference,
                                   finalConfig.angleWeight))
        ELSE /\ result.similarity = DistanceSimilarity
             /\ result = WithoutAngles

\* Angles and distances blended into a similarity strictly between the two.
C22_Witness ==
    /\ StandardCompared /\ finalConfig.useAngles /\ Len(ComparableTriples) > 0
    /\ finalConfig.angleWeight = Ratio(3, 10)
    /\ Gt(result.similarity, DistanceSimilarity)
    /\ Lt(result.similarity, Sub(One, MeanAngleDifference))


\* C23: with angleOnly = true and a comparable triple, the similarity is 1
\* minus the mean of the normalized angle differences, and the result is the
\* same whatever useAngles and angleWeight are: no distance between joints
\* enters the score.
C23_AnglesOnlyScore ==
    AnglesOnlyCompared =>
        /\ result.similarity = Sub(One, MeanAngleDifference)
        /\ \A u \in BOOLEAN, w \in AngleWeights : WithAngleOptions(u, w) = result

\* Two postures whose angles differ, scored on the angles alone.
C23_Witness ==
    /\ AnglesOnlyCompared
    /\ Gt(MeanAngleDifference, Zero)
    /\ Lt(result.similarity, One)
    /\ WithAngleOptions(TRUE, Num(2)) = result


\* C24: in every non-degenerate result, comparedRegions holds exactly the
\* regions detected in both poses, each once: 'upper' with either shoulder
\* visible, 'lower' with either hip, 'left_arm' with the left shoulder and the
\* left elbow or wrist, 'right_arm' likewise on the right.
C24_RegionsOfBothPoses ==
    NonDegenerate =>
        /\ Elements(result.comparedRegions)
              = {r \in BodyRegions : HasRegion(target, r) /\ HasRegion(current, r)}
        /\ Len(result.comparedRegions) = Cardinality(Elements(result.comparedRegions))

\* A whole reference and a live pose without its lower body: the regions of
\* the upper body only.
C24_Witness ==
    /\ NonDegenerate
    /\ HasRegion(target, "lower") /\ ~HasRegion(current, "lower")
    /\ result.comparedRegions = <<"upper", "left_arm", "right_arm">>


\* C25: in angle-only mode every result with a comparable triple has a
\* similarity >= 0.5, each normalized angle difference being at most 0.5; so
\* under the default similarityThreshold 0.5 it has isMatching = true,
\* whatever the two poses are.
C25_AnglesOnlyAtLeastHalf ==
    AnglesOnlyCompared =>
        /\ Ge(result.similarity, Ratio(1, 2))
        /\ Le(result.meanDistance, Ratio(1, 2))
        /\ finalConfig.similarityThreshold = Ratio(1, 2) => result.isMatching

\* A standing reference and a live pose with every limb at a right angle
\* match under the default threshold.
C25_Witness ==
    /\ AnglesOnlyCompared
    /\ finalConfig.similarityThreshold = Ratio(1, 2)
    /\ target.shape = "stand" /\ current.shape = "angled"
    /\ Lt(result.similarity, Ratio(3, 5))
    /\ result.isMatching


\* C26: in every result returned, 0 <= validLandmarks <= landmarksCompared;
\* in standard mode landmarksCompared is the number of visible joints of the
\* reference and validLandmarks the number of joints visible in both poses;
\* in angle-only mode and in degenerate results the two counts are equal.
C26_CountsAreOrdered ==
    (Called /\ result.outcome = "returned") =>
        /\ 0 <= result.validLandmarks
        /\ result.validLandmarks <= result.landmarksCompared
        /\ IF finalConfig.angleOnly \/ IsDegenerate(result)
           THEN result.validLandmarks = result.landmarksCompared
           ELSE /\ result.landmarksCompared = VisibleCount(target)
                /\ result.validLandmarks = CommonCount

\* A whole reference and a live pose that shows fewer joints.
C26_Witness ==
    /\ Called /\ result.outcome = "returned" /\ ~finalConfig.angleOnly
    /\ result.landmarksCompared = PoseLength
    /\ result.validLandmarks > 0
    /\ result.validLandmarks < result.landmarksCompared


\* C27: the similarity recorded for a pose when its webcam countdown expires
\* is 0 or that of a comparison made during the same countdown; a result of
\* an earlier pose, level or game is never recorded.
C27_RecordedFromOwnCountdown ==
    [][WebcamCountdownDone => (similarity = Zero \/ comparedFor = ThisCountdown)]_vars

\* C28: at most one comparison interval is active, and only in the webcam
\* phase with a current pose; the active one is the one the ref holds, which
\* the next cleanup cancels before another is set.
C28_OneComparisonTimer ==
    /\ Cardinality(timers) <= 1
    /\ timers # {} => StartsComparing(phase, CurrentPose(selectedPoses, poseIndex))
    /\ timers \subseteq {comparisonIntervalRef}

\* The second pose of a level is compared by a second interval, set after
\* the first was cleared.
C28_Witness ==
    /\ phase = "webcam" /\ poseIndex = 1
    /\ comparisonIntervalRef = 2 /\ timers = {2}
    /\ CurrentPose(selectedPoses, 0) # CurrentPose(selectedPoses, 1)


\* No call of start() is at an await, no loadeddata event is due and no
\* predictWebcam awaits setOptions.
Settled ==
    /\ \A i \in 1..MaxStarts : starts[i] \in {"idle", "returned"}
    /\ ~loadPending
    /\ settingOptions = 0

\* C29: the comparison callback never calls comparePoses with an empty live
\* pose: when the latest detection holds no pose the tick is skipped, and
\* the empty-input error is not raised in the polling loop.
C29_EmptyLivePoseIsSkipped ==
    polled.tick = "called" => (polled.live > 0 /\ polled.outcome # "threw")

\* C30: once stop() was the last call and every pending step has completed,
\* isRunning() is false, no stream is attached and getCurrentLandmarks()
\* returns null.
C30_StoppedAfterStop ==
    (lastCalled = "stop" /\ Settled) =>
        /\ ~webcamRunningRef
        /\ srcObject = 0
        /\ currentLandmarksRef = <<>>

=============================================================================
